---- MODULE Spec2Model ----
(***************************************************************************)
(* Execution-context cache and call dispatcher of pljs (src/src/cache.c,   *)
(* src/src/pljs.c, src/src/functions.c), as a state machine of one backend *)
(* process.  A state holds the context hash table with its nested function *)
(* tables, the script runtime's contexts and their per-context storage     *)
(* slot, the stack of handler invocations that are in progress (a script   *)
(* can issue a nested statement through pljs.execute), the SPI connection  *)
(* stack and the subtransaction stack of the host, and the result buffer   *)
(* of every set-returning call.  The encoders of src/src/types.c are       *)
(* operators on script values and Datums.                                  *)
(***************************************************************************)
EXTENDS Integers, Sequences, FiniteSets, TLC

\* ------------------------------------------------------------------ bounds
NumUsers == 2
MaxCalls == 3
MaxDepth == 2
MaxRows == 2

Users == 1..NumUsers

\* Every handler invocation makes at most one script context.
Contexts == 1..MaxCalls

\* Handler invocations are numbered from 1.
Calls == 1..MaxCalls

\* ------------------------------------------------- catalog (pg_proc rows)
\* Three routines: a plain function, a set-returning function with OUT
\* columns, and a trigger function.
Fns == {"add", "series", "trg"}

\* Source texts.  "v1" and "v2" are two bodies that compile; "nocompile"
\* passes the validator's compile-only evaluation of the bare body but
\* fails when wrapped in the synthesized declaration; "invalid" fails the
\* validator's evaluation.
Sources == {"v1", "v2", "nocompile"}
ProcInfo(fn) ==
  CASE fn = "add" ->
         [proretset |-> FALSE, prorettype |-> "int4", typeclass |-> "SCALAR",
          argtypes |-> <<"int4", "int4">>, argmodes |-> <<"i", "i">>]
    [] fn = "series" ->
         [proretset |-> TRUE, prorettype |-> "record", typeclass |-> "COMPOSITE",
          argtypes |-> <<"int4", "int4", "text">>, argmodes |-> <<"i", "o", "o">>]
    [] fn = "numbers" ->
         [proretset |-> TRUE, prorettype |-> "text", typeclass |-> "SCALAR",
          argtypes |-> <<"int4">>, argmodes |-> <<"i">>]
    [] fn = "rows" ->
         [proretset |-> TRUE, prorettype |-> "t", typeclass |-> "COMPOSITE",
          argtypes |-> <<"int4">>, argmodes |-> <<"i">>]
    [] OTHER ->
         [proretset |-> FALSE, prorettype |-> "trigger", typeclass |-> "OTHER",
          argtypes |-> <<>>, argmodes |-> <<>>]

CalledAsTrigger(fn) == fn = "trg"

\* The routines that are redefined in the runs explored.
Redefined == {"add"}

\* JS_Eval(..., JS_EVAL_FLAG_COMPILE_ONLY) of the bare body in the validator.
ValidatorAccepts(src) == src # "invalid"

\* ------------------------------------------- script values (QuickJS JSValue)
\* A script value: its tag, the payload of a primitive (numbers are written
\* in decimal, strings are one byte long), the elements of an array, typed
\* array or byte buffer, and the own properties of an object.
JSValue(tag, v, elems, props) ==
  [tag |-> tag, v |-> v, elems |-> elems, props |-> props]

JS_NULL == JSValue("null", "", <<>>, {})
JS_UNDEFINED == JSValue("undefined", "", <<>>, {})
JS_NewNumber(v) == JSValue("number", v, <<>>, {})
JS_NewString(v) == JSValue("string", v, <<>>, {})
JS_NewArray(elems) == JSValue("array", "", elems, {})
JS_NewObject(props) == JSValue("object", "", <<>>, props)
JS_NewTypedArray(class_id, elems) == JSValue(class_id, "", elems, {})

Property(name, val) == [name |-> name, val |-> val]

JS_IsNull(val) == val.tag = "null"
JS_IsUndefined(val) == val.tag = "undefined"
JS_IsArray(val) == val.tag = "array"
JS_IsString(val) == val.tag = "string"
JS_IsObject(val) ==
  val.tag \notin {"null", "undefined", "number", "string", "boolean", "bigint"}
Is_ArrayType(val, class_id) == val.tag = class_id
Is_ArrayBuffer(val) == val.tag = "ArrayBuffer"

\* JS_GetPropertyStr: the property, or undefined when the value has none of
\* that name (a primitive has none).
JS_GetPropertyStr(val, name) ==
  IF \E p \in val.props : p.name = name
    THEN (CHOOSE p \in val.props : p.name = name).val
    ELSE JS_UNDEFINED

\* JS_GetOwnPropertyNames with JS_GPN_STRING_MASK.
JS_GetOwnPropertyNames(val) == {p.name : p \in val.props}

\* JS_GetPropertyUint32: element i (from 0), undefined past the end.
JS_GetPropertyUint32(val, i) ==
  IF i + 1 \in 1..Len(val.elems) THEN val.elems[i + 1] ELSE JS_UNDEFINED

\* pljs_js_array_length: the `length` property through JS_ToInt32; a string
\* has its length, a value without the property gives 0.
pljs_js_array_length(val) ==
  IF JS_IsString(val) THEN 1 ELSE Len(val.elems)

\* JS_ToInt32: a number is itself, a string that is no numeral and an object
\* are NaN and give 0.
JS_ToInt32(val) == IF val.tag = "number" THEN val.v ELSE "0"

\* JS_ToCStringLen: the string conversion of the script engine.
JS_ToCStringLen(val) ==
  CASE val.tag \in {"number", "string"} -> val.v
    [] val.tag = "array" -> "<joined elements>"
    [] val.tag = "Date" -> "<date string>"
    [] OTHER -> "[object " \o val.tag \o "]"

\* JS_JSONStringify of a value whose elements are primitives.
JS_JSONStringify(val) ==
  CASE val.tag = "number" -> val.v
    [] val.tag = "string" -> "\"" \o val.v \o "\""
    [] val.tag = "array" -> "[" \o "<elements>" \o "]"
    [] OTHER -> "{" \o "<properties>" \o "}"

\* ------------------------------------------------- relational values
\* A Datum: a scalar of type `kind` with payload v, an array with its
\* element type in v, its dimensions, lower bounds, elements and null map,
\* or a row with its fields and null map.  (Datum) 0 is ZeroDatum.
Datum(kind, v, dims, lbs, elems, nulls) ==
  [kind |-> kind, v |-> v, dims |-> dims, lbs |-> lbs, elems |-> elems,
   nulls |-> nulls]

ZeroDatum == Datum("0", "", <<>>, <<>>, <<>>, <<>>)
ScalarDatum(typid, v) == Datum(typid, v, <<>>, <<>>, <<>>, <<>>)

\* construct_md_array(values, nulls, ndims, dims, lbs, elmtype, ...).
construct_md_array(values, nulls, ndims, dims, lbs, elmtype) ==
  Datum("array", elmtype, SubSeq(dims, 1, ndims), SubSeq(lbs, 1, ndims),
        values, nulls)

\* heap_form_tuple(tupdesc, values, nulls).
heap_form_tuple(tupdesc, values, nulls) ==
  Datum("row", "", <<>>, <<>>,
        [c \in 1..Len(tupdesc) |-> IF nulls[c] THEN ZeroDatum ELSE values[c]],
        nulls)

\* A bytea value: the varlena of psize bytes.
ByteaDatum(bytes) == Datum("bytea", "", <<Len(bytes)>>, <<>>, bytes, <<>>)

\* ------------------------------------------------- types (pg_type rows)
\* get_type_category_preferred.
TypeCategory(typid) ==
  CASE typid \in {"_int4", "_text"} -> "A"
    [] typid = "t" -> "C"
    [] typid = "record" -> "P"
    [] typid = "int4" -> "N"
    [] typid = "text" -> "S"
    [] OTHER -> "U"

\* get_element_type.
get_element_type(typid) ==
  CASE typid = "_int4" -> "int4"
    [] typid = "_text" -> "text"
    [] OTHER -> "-"

\* pljs_type_fill: an array type is replaced by its element type.
pljs_type_fill(typid) ==
  LET category == TypeCategory(typid)
  IN IF category = "A"
       THEN [typid |-> get_element_type(typid), category |-> category,
             is_composite |-> TypeCategory(get_element_type(typid)) = "C"]
       ELSE [typid |-> typid, category |-> category,
             is_composite |-> category \in {"C", "P"}]

\* Row descriptors.  The table t has a dropped second column.
Attr(attname, atttypid, attisdropped) ==
  [attname |-> attname, atttypid |-> atttypid, attisdropped |-> attisdropped]

NoTupleDesc == <<>>

TupleDescOf(name) ==
  CASE name = "series" -> <<Attr("n", "int4", FALSE), Attr("label", "text", FALSE)>>
    [] name = "numbers" -> <<Attr("numbers", "text", FALSE)>>
    [] OTHER -> <<Attr("n", "int4", FALSE), Attr("pg.dropped.2", "-", TRUE),
                  Attr("label", "text", FALSE)>>

\* lookup_rowtype_tupdesc(typid, -1): the descriptor of a named row type; the
\* anonymous record type has none registered.
lookup_rowtype_tupdesc(typid) ==
  IF typid = "t" THEN [error |-> "", tupdesc |-> TupleDescOf("t")]
  ELSE [error |-> "record type has not been registered", tupdesc |-> NoTupleDesc]

\* ------------------------------------- types.c: Datum to script value
\* Times.  A time value of the script engine is a number of milliseconds
\* since 1970-01-01, written here as whole days and the milliseconds of the
\* day; a timestamp of the host is a number of microseconds since
\* 2000-01-01, written as whole days and the microseconds of the day.  The
\* two epochs are POSTGRES_EPOCH_JDATE - UNIX_EPOCH_JDATE = 10957 days apart.
\* date_to_epoch and timestamptz_to_epoch with HAVE_INT64_TIMESTAMP (c.h
\* defines it); double arithmetic is exact for the values drawn.
date_to_epoch(date) == [days |-> date + 10957, ms |-> 0]

timestamptz_to_epoch(tm) == [days |-> tm.days + 10957, ms |-> tm.us \div 1000]

\* epoch_to_date: the cast to DateADT cuts the fraction of a day off, towards
\* zero.
epoch_to_date(epoch) ==
  LET days == epoch.days - 10957
  IN IF days < 0 /\ epoch.ms > 0 THEN days + 1 ELSE days

\* epoch_to_timestamptz.
epoch_to_timestamptz(epoch) ==
  [days |-> epoch.days - 10957, us |-> epoch.ms * 1000]

\* Is_Date: JS_GetOpaque(obj, JS_CLASS_DATE) is not NULL.  JS_GetOpaque
\* gives NULL for an object of another class and the word u.opaque of the
\* object otherwise; for a Date that word is the first word of its object
\* data, the time value as a double, and all of its bits are 0 for the
\* time value +0.
Is_Date(obj) ==
  /\ obj.tag = "Date"
  /\ obj.v # [days |-> 0, ms |-> 0]

\* pljs_datum_to_jsvalue, the switch on the type of a scalar.  JS_NewDate
\* makes a Date object whose object data is the time value.
pljs_datum_to_jsvalue(arg, argtype) ==
  CASE argtype = "bool" -> JSValue("boolean", arg.v, <<>>, {})
    [] argtype \in {"int2", "int4"} -> JS_NewNumber(arg.v)
    [] argtype = "int8" -> JSValue("bigint", arg.v, <<>>, {})
    [] argtype = "date" -> JSValue("Date", date_to_epoch(arg.v), <<>>, {})
    [] argtype \in {"timestamp", "timestamptz"} ->
         JSValue("Date", timestamptz_to_epoch(arg.v), <<>>, {})
    [] OTHER -> JS_NewString(arg.v)

\* ------------------------------------- types.c: script value to Datum
\* The result of an encoder: the error raised, whether a NULL pointer was
\* written through on the way (ub), the Datum, whether true was stored
\* through the caller's isnull pointer, whether fcinfo->isnull was set.
EncResult(error, ub, datum, isnull, fcinfo_isnull) ==
  [error |-> error, ub |-> ub, datum |-> datum, isnull |-> isnull,
   fcinfo_isnull |-> fcinfo_isnull]

EncError(message) == EncResult(message, FALSE, ZeroDatum, FALSE, FALSE)

\* PG_RETURN_NULL(): fcinfo->isnull = true; return (Datum) 0.  With no call
\* info the store goes through a NULL pointer.
PG_RETURN_NULL(fcinfo, isnull) ==
  EncResult("", ~fcinfo, ZeroDatum, isnull, fcinfo)

\* The bytes that the BYTEAOID case copies from a typed array of elements
\* `width` bytes wide (little-endian, the elements are below 256).
TypedArrayBytes(val, width) ==
  [i \in 1..(width * Len(val.elems)) |->
     IF (i - 1) % width = 0 THEN JS_ToInt32(val.elems[((i - 1) \div width) + 1])
     ELSE "0"]

\* pljs_jsvalue_to_datum, the BYTEAOID case.
jsvalue_to_bytea(val, fcinfo) ==
  CASE Is_ArrayType(val, "Uint8Array") \/ Is_ArrayType(val, "Int8Array") ->
         EncResult("", FALSE, ByteaDatum(TypedArrayBytes(val, 1)), FALSE, FALSE)
    [] Is_ArrayType(val, "Uint16Array") \/ Is_ArrayType(val, "Int16Array") ->
         EncResult("", FALSE, ByteaDatum(TypedArrayBytes(val, 2)), FALSE, FALSE)
    [] Is_ArrayType(val, "Uint32Array") \/ Is_ArrayType(val, "Int32Array") ->
         \* the copy loop runs to 4 * length elements of 4 bytes: it writes
         \* past the end of array_copy when the array is not empty
         EncResult("", Len(val.elems) > 0, ByteaDatum(TypedArrayBytes(val, 4)),
                   FALSE, FALSE)
    [] Is_ArrayBuffer(val) ->
         EncResult("", FALSE, ByteaDatum(TypedArrayBytes(val, 1)), FALSE, FALSE)
    [] JS_IsString(val) ->
         EncResult("", FALSE, ByteaDatum(<<JS_ToCStringLen(val)>>), FALSE, FALSE)
    [] OTHER -> PG_RETURN_NULL(fcinfo, FALSE)

\* jsvalue_to_datum_default: the encoder of the types that the switch does
\* not name.  The property is_null of the value, read as a boolean, is
\* stored through isnull (a NULL pointer when the caller passed none); a
\* type passed by value is read as a 32-bit integer, any other is a copy of
\* the bytes of the string conversion.
jsvalue_to_datum_default(value, isnull, type) ==
  LET \* get_typlenbyvalalign: the types drawn that are passed by value
      byval == type \in {"date", "timestamp", "timestamptz", "money"}
      is_set_null_value == JS_GetPropertyStr(value, "is_null")
      \* JS_ToBool
      is_null == CASE is_set_null_value.tag \in {"undefined", "null"} -> FALSE
                   [] is_set_null_value.tag = "number" -> is_set_null_value.v # "0"
                   [] is_set_null_value.tag = "string" -> is_set_null_value.v # ""
                   [] OTHER -> TRUE
  IN IF is_null
       THEN EncResult("", ~isnull, ZeroDatum, TRUE, FALSE)
       ELSE EncResult("", ~isnull,
                      ScalarDatum(type, IF byval THEN JS_ToInt32(value)
                                        ELSE JS_ToCStringLen(value)),
                      FALSE, FALSE)

\* pljs_jsvalue_to_datum, the switch on the type of a value that is not null.
jsvalue_to_scalar(val, rettype, fcinfo, isnull) ==
  CASE rettype = "bool" ->
         \* JS_ToBool
         EncResult("", FALSE,
                   ScalarDatum("bool", IF val.tag = "boolean" THEN val.v
                                       ELSE val.tag # "number" \/ val.v # 0),
                   FALSE, FALSE)
    [] rettype = "int2" ->
         \* (int16_t) of the 32-bit integer read
         LET in == JS_ToInt32(val) % 65536
         IN EncResult("", FALSE,
                      ScalarDatum("int2", IF in >= 32768 THEN in - 65536 ELSE in),
                      FALSE, FALSE)
    [] rettype = "int8" ->
         \* JS_ToBigInt64 of a big integer, JS_ToInt64 of a number
         EncResult("", FALSE, ScalarDatum("int8", val.v), FALSE, FALSE)
    [] rettype = "date" ->
         IF Is_Date(val)
           THEN EncResult("", FALSE, ScalarDatum("date", epoch_to_date(val.v)),
                          FALSE, FALSE)
           \* break, then the PG_RETURN_NULL() that ends the function
           ELSE PG_RETURN_NULL(fcinfo, FALSE)
    [] rettype \in {"timestamp", "timestamptz"} ->
         IF Is_Date(val)
           THEN EncResult("", FALSE,
                          ScalarDatum(rettype, epoch_to_timestamptz(val.v)),
                          FALSE, FALSE)
           ELSE PG_RETURN_NULL(fcinfo, FALSE)
    [] rettype = "int4" -> EncResult("", FALSE, ScalarDatum("int4", JS_ToInt32(val)),
                                     FALSE, FALSE)
    [] rettype = "text" -> EncResult("", FALSE,
                                     ScalarDatum("text", JS_ToCStringLen(val)),
                                     FALSE, FALSE)
    [] rettype = "json" -> EncResult("", FALSE,
                                     ScalarDatum("text", JS_JSONStringify(val)),
                                     FALSE, FALSE)
    [] rettype = "bytea" -> jsvalue_to_bytea(val, fcinfo)
    [] OTHER -> jsvalue_to_datum_default(val, isnull, rettype)

\* The field loop of pljs_jsvalue_to_record (lines 694-711): a dropped
\* column and a property that is null or undefined give a null field;
\* every other property is encoded with no call info.
RECURSIVE pljs_jsvalue_to_datum(_, _, _, _)

\* The field loop without the test for dropped columns.
RecordFieldsWithDropped(val, tupdesc) ==
  [c \in 1..Len(tupdesc) |->
     LET o == JS_GetPropertyStr(val, tupdesc[c].attname)
     IN IF JS_IsNull(o) \/ JS_IsUndefined(o)
          THEN EncResult("", FALSE, ZeroDatum, TRUE, FALSE)
          ELSE pljs_jsvalue_to_datum(o, tupdesc[c].atttypid, FALSE, TRUE)]

RecordFields(val, tupdesc) ==
  [c \in 1..Len(tupdesc) |->
     LET o == JS_GetPropertyStr(val, tupdesc[c].attname)
     IN IF tupdesc[c].attisdropped \/ JS_IsNull(o) \/ JS_IsUndefined(o)
          THEN EncResult("", FALSE, ZeroDatum, TRUE, FALSE)
          ELSE pljs_jsvalue_to_datum(o, tupdesc[c].atttypid, FALSE, TRUE)]

\* The first error of a sequence of results, and whether a NULL pointer was
\* written through before it.
FirstError(rs) ==
  LET errs == {i \in 1..Len(rs) : rs[i].error # ""}
      first == IF errs = {} THEN Len(rs) + 1
               ELSE CHOOSE i \in errs : \A j \in errs : i <= j
  IN [error |-> IF errs = {} THEN "" ELSE rs[first].error,
      ub |-> \E i \in 1..(first - 1) : rs[i].ub,
      first |-> first]

\* pljs_jsvalue_to_record: is_null is whether the caller passed a pointer.
pljs_jsvalue_to_record(val, type, is_null, tupdesc) ==
  IF JS_IsNull(val) \/ JS_IsUndefined(val)
    THEN EncResult("", ~is_null, ZeroDatum, is_null, FALSE)
    ELSE LET looked == IF tupdesc = NoTupleDesc
                         THEN lookup_rowtype_tupdesc(type.typid)
                         ELSE [error |-> "", tupdesc |-> tupdesc]
             fields == RecordFields(val, looked.tupdesc)
             fe == FirstError(fields)
         IN IF looked.error # "" THEN EncError(looked.error)
            ELSE IF fe.error # "" THEN EncResult(fe.error, fe.ub, ZeroDatum, FALSE, FALSE)
            ELSE EncResult("", fe.ub,
                           heap_form_tuple(looked.tupdesc,
                                           [c \in 1..Len(fields) |-> fields[c].datum],
                                           [c \in 1..Len(fields) |-> fields[c].isnull]),
                           FALSE, FALSE)

\* pljs_jsvalue_to_array: a null element is marked in the null map; every
\* other element, undefined included, goes through pljs_jsvalue_to_datum
\* with the call info of the caller and the address of its null flag.
pljs_jsvalue_to_array(val, type, fcinfo) ==
  LET array_length == pljs_js_array_length(val)
      rs == [i \in 1..array_length |->
               LET elem == JS_GetPropertyUint32(val, i - 1)
               IN IF JS_IsNull(elem)
                    THEN EncResult("", FALSE, ZeroDatum, TRUE, FALSE)
                    ELSE pljs_jsvalue_to_datum(elem, type.typid, fcinfo, TRUE)]
      fe == FirstError(rs)
  IN IF fe.error # ""
       THEN EncResult(fe.error, fe.ub, ZeroDatum, FALSE, FALSE)
       ELSE EncResult("", fe.ub,
                      construct_md_array([i \in 1..array_length |-> rs[i].datum],
                                         [i \in 1..array_length |-> rs[i].isnull],
                                         1, <<array_length>>, <<1>>, type.typid),
                      FALSE,
                      \E i \in 1..array_length : rs[i].fcinfo_isnull)

\* pljs_jsvalue_to_datum(val, rettype, ctx, fcinfo, isnull): fcinfo and
\* isnull are whether the caller passed call info and a null flag.
pljs_jsvalue_to_datum(val, rettype, fcinfo, isnull) ==
  LET type == pljs_type_fill(rettype)
  IN IF type.typid \notin {"json", "jsonb"} /\ JS_IsArray(val)
       THEN pljs_jsvalue_to_array(val, type, fcinfo)
     ELSE IF type.category = "A" /\ ~JS_IsArray(val)
       THEN EncError("value is not an Array")
     ELSE IF type.is_composite
       THEN pljs_jsvalue_to_record(val, type, isnull, NoTupleDesc)
     ELSE IF JS_IsNull(val) \/ JS_IsUndefined(val)
       THEN PG_RETURN_NULL(fcinfo, ~fcinfo /\ isnull)
     ELSE jsvalue_to_scalar(val, rettype, fcinfo, isnull)

\* pljs_jsvalue_to_datums: the values and the null map of a row read from
\* the properties of a script object, one field per attribute.
pljs_jsvalue_to_datums(val, tupdesc) ==
  LET fields == RecordFields(val, tupdesc)
  IN [values |-> [c \in 1..Len(tupdesc) |-> fields[c].datum],
      nulls |-> [c \in 1..Len(tupdesc) |-> fields[c].isnull]]

\* pljs_jsvalue_object_contains_all_column_names.
pljs_jsvalue_object_contains_all_column_names(val, tupdesc) ==
  \A c \in 1..Len(tupdesc) :
    tupdesc[c].attisdropped \/ tupdesc[c].attname \in JS_GetOwnPropertyNames(val)

\* ---------------------------------------------------------------- state
VARIABLES
  userId,                  \* GetUserId(): the current principal
  start_proc,              \* configuration.start_proc is set
  prosrc,                  \* pg_proc.prosrc of every routine
  pljs_context_HashTable,  \* set of pljs_context_cache_value entries
  ctx_creator,             \* script contexts made by JS_NewContext: the
                           \* principal current when context i was made
  storage,                 \* per context: the opaque pljs_storage slot
  stack,                   \* handler invocations in progress
  spi_stack,               \* open SPI connections
  subxact_stack,           \* open subtransactions
  call_count,              \* handler invocations so far
  served,                  \* history: what the completed get-or-create
                           \* requests since the last cache reset yielded
  ev,                      \* history: the last event
  return_states,           \* per handler invocation: the pljs_return_state
                           \* of a set-returning call in progress
  enc,                     \* an encoder applied to one input: the input
                           \* and, once applied, the result
  os_pending_signals       \* the SIGINT bit of os_pending_signals

vars == <<userId, start_proc, prosrc, pljs_context_HashTable, ctx_creator,
          storage, stack, spi_stack, subxact_stack, call_count, served, ev,
          return_states, enc, os_pending_signals>>

\* ------------------------------------------------------ values and nulls
\* A function value made by JS_Eval is named by the handler invocation and
\* the place that compiled it.
NoJsFunction ==
  [call |-> 0, by |-> "-", ctx |-> 0, fn_oid |-> "-", prosrc |-> "-", user_id |-> 0]

NullStorage == [call |-> 0, function |-> "-", return_state |-> FALSE]

NoEvent ==
  [op |-> "-", outcome |-> "-", principal |-> 0, fn_oid |-> "-", hit |-> FALSE,
   kind |-> "-", spi_own |-> 0, sub_own |-> 0, restored |-> TRUE,
   val |-> JS_UNDEFINED, rows |-> <<>>, datum |-> ZeroDatum, tg |-> [level |-> "-", op |-> "-"]]

\* No pljs_return_state.
NoReturnState ==
  [is_composite |-> FALSE, tuple_desc |-> NoTupleDesc, tuple_store_state |-> <<>>]

\* No encoder input.
NoEncoding ==
  [via |-> "-", val |-> JS_UNDEFINED, rettype |-> "-", fcinfo |-> FALSE,
   done |-> FALSE, crashed |-> FALSE,
   res |-> EncResult("", FALSE, ZeroDatum, FALSE, FALSE)]

\* ------------------------------------------------------------- cache.c
\* hash_search(..., HASH_FIND, ...) on the context table: the entries found.
pljs_cache_context_find(table, user_id) ==
  {e \in table : e.user_id = user_id}

\* A context entry as pljs_cache_context_add fills it; function_hash_table
\* is valid once hash_create has returned.
ContextEntry(user_id, ctx, valid) ==
  [user_id |-> user_id, ctx |-> ctx,
   function_hash_table |-> [valid |-> valid, entries |-> {}]]

\* pljs_cache_context_add without the test of `found`.
pljs_cache_context_add_unchecked(table, user_id, ctx, oom) ==
  [error |-> "", table |-> table \cup {ContextEntry(user_id, ctx, TRUE)}]

\* pljs_cache_context_add: HASH_ENTER, error when found, else fill the entry.
\* When AllocSetContextCreate or hash_create runs out of memory (oom) the
\* error leaves the entered entry behind with no function table.
pljs_cache_context_add(table, user_id, ctx, oom) ==
  IF pljs_cache_context_find(table, user_id) # {}
    THEN [error |-> "context_exists", table |-> table]
    ELSE IF oom
      THEN [error |-> "out_of_memory",
            table |-> table \cup {ContextEntry(user_id, ctx, FALSE)}]
      ELSE [error |-> "",
            table |-> table \cup {ContextEntry(user_id, ctx, TRUE)}]

\* pljs_cache_function_find: the function entries found for (user_id, fn_oid).
pljs_cache_function_find(table, user_id, fn_oid) ==
  UNION {{f \in e.function_hash_table.entries : f.fn_oid = fn_oid} :
         e \in pljs_cache_context_find(table, user_id)}

\* pljs_context_to_function_cache: the fields copied into a function entry.
\* is_srf, typeclass, rettype and the total argument count are not copied;
\* argument types and modes are copied for the first inargs positions.  The
\* source is copied last, into memory from palloc, which can fail (oom).
pljs_context_to_function_cache(context, oom) ==
  [fn_oid |-> context.function.fn_oid,
   user_id |-> context.function.user_id,
   trigger |-> context.function.trigger,
   fn |-> context.js_function,
   ctx |-> context.ctx,
   nargs |-> context.function.inargs,
   argtypes |-> SubSeq(context.function.argtypes, 1, context.function.inargs),
   argmodes |-> SubSeq(context.function.argmodes, 1, context.function.inargs),
   prosrc |-> IF oom THEN "-" ELSE context.function.prosrc]

\* pljs_cache_function_add: error when the principal has no context entry or
\* the routine already has an entry, else enter and fill the entry.  HASH_ENTER
\* through a function table that was never created ends the process.
pljs_cache_function_add(table, context, oom) ==
  LET ctx_hvalue == pljs_cache_context_find(table, context.function.user_id)
  IN IF ctx_hvalue = {}
       THEN [error |-> "no_context", table |-> table]
       ELSE LET e == CHOOSE x \in ctx_hvalue : TRUE
                dup == {f \in e.function_hash_table.entries :
                          f.fn_oid = context.function.fn_oid}
            IN IF ~e.function_hash_table.valid
                 THEN [error |-> "crash", table |-> table]
                 ELSE IF dup # {}
                   THEN [error |-> "function_exists", table |-> table]
                   ELSE [error |-> IF oom THEN "out_of_memory" ELSE "",
                         table |-> (table \ {e}) \cup
                           {[e EXCEPT !.function_hash_table.entries =
                               @ \cup {pljs_context_to_function_cache(context, oom)}]}]

\* pljs_function_cache_to_context: the pljs_context rebuilt from an entry.
\* The pljs_func is palloc'ed, not zeroed: is_srf, nargs, typeclass and
\* rettype keep whatever the memory held (garbage).
pljs_function_cache_to_context(function_entry, garbage) ==
  [ctx |-> function_entry.ctx,
   js_function |-> function_entry.fn,
   function |->
     [fn_oid |-> function_entry.fn_oid,
      user_id |-> function_entry.user_id,
      trigger |-> function_entry.trigger,
      is_srf |-> garbage.is_srf,
      inargs |-> function_entry.nargs,
      nargs |-> garbage.nargs,
      typeclass |-> garbage.typeclass,
      rettype |-> garbage.rettype,
      argtypes |-> function_entry.argtypes,
      argmodes |-> function_entry.argmodes,
      prosrc |-> function_entry.prosrc]]

\* A reset that empties the function tables and keeps the context entries.
pljs_cache_reset_functions_only ==
  {[e EXCEPT !.function_hash_table.entries = {}] : e \in pljs_context_HashTable}

\* pljs_cache_reset: both hash tables and their memory are dropped.
pljs_cache_reset == {}

\* An entry a failed allocation left behind is in the way of the lookup for
\* (user_id, fn_oid): a context entry whose function table pointer was never
\* set, or a function entry whose source pointer was never set.  Following
\* such a pointer can end the process, or read whatever the memory holds.
PointerOutcomes(table, user_id, fn_oid) ==
  IF \/ \E e \in pljs_cache_context_find(table, user_id) :
          ~e.function_hash_table.valid
     \/ \E f \in pljs_cache_function_find(table, user_id, fn_oid) :
          f.prosrc = "-"
    THEN {"crash", "read"} ELSE {"valid"}

\* setup_function: the pljs_func built from the pg_proc row.
setup_function(fn_oid, user_id, src) ==
  LET p == ProcInfo(fn_oid)
  IN [fn_oid |-> fn_oid, user_id |-> user_id, trigger |-> FALSE,
      is_srf |-> p.proretset,
      inargs |-> Cardinality({i \in 1..Len(p.argmodes) :
                                  p.argmodes[i] \in {"i", "b", "v"}}),
      nargs |-> Len(p.argmodes),
      typeclass |-> p.typeclass, rettype |-> p.prorettype,
      argtypes |-> p.argtypes, argmodes |-> p.argmodes, prosrc |-> src]

\* --------------------------------------------------------- host services
\* BeginInternalSubTransaction in pljs_execute, when the statement is issued
\* by a running script; a top-level statement runs in the transaction itself.
ExecuteBegin ==
  IF stack = <<>> THEN subxact_stack
  ELSE Append(subxact_stack,
              [opener |-> "pljs_execute", call |-> stack[Len(stack)].call])

\* SPI_connect_ext by handler invocation `call`.
SPI_connect(spi, sub, call) == Append(spi, [call |-> call, subid |-> Len(sub)])

\* SPI_finish: the innermost connection is closed.
SPI_finish(spi) == SubSeq(spi, 1, Len(spi) - 1)

\* What a handler invocation has done when it enters the script or leaves:
\* the connections and subtransactions it opened that are still open, and
\* whether the storage slot of its context holds what it held at entry.
Event(op, outcome, fr, spi, sto) ==
  [op |-> op, outcome |-> outcome, principal |-> fr.lookup_user,
   fn_oid |-> fr.fn_oid, hit |-> fr.hit, kind |-> fr.kind,
   spi_own |-> Cardinality({i \in 1..Len(spi) : spi[i].call = fr.call}),
   sub_own |-> Cardinality({i \in 1..Len(subxact_stack) :
                            /\ subxact_stack[i].call = fr.call
                            /\ subxact_stack[i].opener = "dispatcher"}),
   restored |-> sto[fr.ctx] = fr.old_storage,
   val |-> JS_UNDEFINED, rows |-> <<>>, datum |-> ZeroDatum, tg |-> [level |-> "-", op |-> "-"]]

\* A pljs_return_state and its tuplestore live in the per-query memory of
\* the set-returning call: what is left of them when only the invocations
\* of `base` go on.
ReleaseReturnStates(base) ==
  [c \in Calls |-> IF \E i \in 1..Len(base) : base[i].call = c
                     THEN return_states[c] ELSE NoReturnState]

\* ereport(ERROR) leaving a handler whose callers are `base`.  With no caller
\* the transaction is aborted; otherwise PG_CATCH in pljs_execute rolls the
\* internal subtransaction back and throws a script exception into the
\* calling script, which goes on running.  The abort closes the SPI
\* connections and subtransactions opened inside and restores the role; the
\* caches and the script runtime are not transactional.
Raise(saved, base, tbl, sto, ctxs, e) ==
  LET Outside(c) == c.subid <= saved.subxact
  IN /\ stack' = base
     /\ pljs_context_HashTable' = tbl
     /\ storage' = sto
     /\ ctx_creator' = ctxs
     /\ ev' = e
     /\ userId' = saved.user
     /\ subxact_stack' = IF base = <<>> THEN <<>>
                          ELSE SubSeq(subxact_stack, 1, saved.subxact)
     /\ spi_stack' = IF base = <<>> THEN <<>> ELSE SelectSeq(spi_stack, Outside)
     /\ return_states' = ReleaseReturnStates(base)
     /\ UNCHANGED <<prosrc, served, enc, os_pending_signals>>

\* The script engine is entered: JS_Call or JS_Eval of user code.  The
\* functions that call a routine or evaluate a block clear the SIGINT bit
\* just before (lines 850, 966, 1041 and 1166).
Push(base, frame, tbl, sto, ctxs, spi, sub, e) ==
  /\ stack' = Append(base, frame)
  /\ pljs_context_HashTable' = tbl
  /\ storage' = sto
  /\ ctx_creator' = ctxs
  /\ spi_stack' = spi
  /\ subxact_stack' = sub
  /\ ev' = e
  /\ served' = IF frame.pc = "script"
                 THEN {y \in served : ~(/\ y.principal = frame.lookup_user
                                        /\ y.fn_oid = frame.fn_oid)}
                      \cup {[principal |-> frame.lookup_user,
                             fn_oid |-> frame.fn_oid, ctx |-> frame.ctx,
                             fn |-> frame.js_function]}
                 ELSE served
  /\ return_states' = IF frame.pc = "script" /\ frame.kind = "srf"
                        \* call_srf_function, lines 1136-1152: the row
                        \* descriptor is copied from the call site's
                        THEN [return_states EXCEPT
                                ![frame.call] =
                                  [is_composite |->
                                     frame.function.typeclass = "COMPOSITE",
                                   tuple_desc |-> TupleDescOf(frame.fn_oid),
                                   tuple_store_state |-> <<>>]]
                        ELSE return_states
  /\ os_pending_signals' = (frame.pc # "script" /\ os_pending_signals)
  /\ UNCHANGED <<userId, prosrc, enc>>

\* A handler returns normally; ReleaseCurrentSubTransaction in pljs_execute
\* when the statement was issued by a script.
Return(base, sto, spi, e) ==
  /\ stack' = base
  /\ storage' = sto
  /\ spi_stack' = spi
  /\ subxact_stack' = IF base = <<>> THEN subxact_stack
                       ELSE SubSeq(subxact_stack, 1, Len(subxact_stack) - 1)
  /\ ev' = e
  /\ return_states' = ReleaseReturnStates(base)
  /\ UNCHANGED <<userId, prosrc, pljs_context_HashTable, ctx_creator, served,
                 enc, os_pending_signals>>

\* The backend process ends (a segmentation fault), which leaves the event
\* e; the next statement runs in a new backend, whose caches and script
\* runtime are new.
CrashWith(e) ==
  /\ stack' = <<>>
  /\ pljs_context_HashTable' = {}
  /\ storage' = [c \in Contexts |-> NullStorage]
  /\ ctx_creator' = <<>>
  /\ spi_stack' = <<>>
  /\ subxact_stack' = <<>>
  /\ served' = {}
  /\ userId' = 1
  /\ ev' = e
  /\ return_states' = [c \in Calls |-> NoReturnState]
  /\ os_pending_signals' = FALSE
  /\ UNCHANGED <<prosrc, enc>>

Crash == CrashWith([NoEvent EXCEPT !.op = "backend", !.outcome = "crash"])

\* ------------------------------------------------------------- frames
\* A handler invocation: the locals of pljs_call_handler or
\* pljs_inline_handler, and where its script stands.  `oom` names the
\* allocation that fails in this invocation, if any.
NewFrame(handler, fn_oid, ctx, need_add, oom) ==
  [handler |-> handler, pc |-> "start_proc", kind |-> "-", fn_oid |-> fn_oid,
   ctx |-> ctx, js_function |-> NoJsFunction,
   function |-> [fn_oid |-> "-", user_id |-> 0, trigger |-> FALSE,
                 is_srf |-> FALSE, inargs |-> 0, nargs |-> 0, typeclass |-> "-",
                 rettype |-> "-", argtypes |-> <<>>, argmodes |-> <<>>,
                 prosrc |-> "-"],
   hit |-> FALSE, lookup_user |-> userId, old_storage |-> storage[ctx],
   call |-> call_count + 1, saved |-> [user |-> userId, subxact |-> Len(subxact_stack)],
   need_add |-> need_add,
   oom |-> oom]

Frames == {stack[i] : i \in 1..Len(stack)}

Top == stack[Len(stack)]
Below == SubSeq(stack, 1, Len(stack) - 1)

\* pljs_compile_function: JS_Eval of the synthesized declaration in ctx.
pljs_compile_function(ctx, function, call, by) ==
  \* JS_Eval of the synthesized declaration compiles these bodies
  IF function.prosrc \in {"v1", "v2"}
    THEN [error |-> FALSE,
          func |-> [call |-> call, by |-> by, ctx |-> ctx,
                    fn_oid |-> function.fn_oid, prosrc |-> function.prosrc,
                    user_id |-> function.user_id]]
    ELSE [error |-> TRUE, func |-> NoJsFunction]

\* pljs_find_js_function: the cached function of the current principal, or a
\* function compiled in ctx that is not stored in the cache.
pljs_find_js_function(table, user_id, fn_oid, ctx, call, by) ==
  LET found == pljs_cache_function_find(table, user_id, fn_oid)
  IN IF found # {}
       THEN [error |-> FALSE, hit |-> TRUE, func |-> (CHOOSE f \in found : TRUE).fn]
       ELSE LET c == pljs_compile_function(
                       ctx, setup_function(fn_oid, user_id, prosrc[fn_oid]),
                       call, by)
            IN [error |-> c.error, hit |-> FALSE, func |-> c.func]

\* setup_storage_for_context / store_storage_in_context.
store_storage_in_context(sto, ctx, value) == [sto EXCEPT ![ctx] = value]

\* ---------------------------------------------------- pljs_call_handler
\* Lines 617-644 up to the entry into the script: call_trigger,
\* call_srf_function or call_function.
Dispatch(base, fr, tbl, ctxs, sub) ==
  IF CalledAsTrigger(fr.fn_oid)
    THEN LET f == [fr EXCEPT !.pc = "script", !.kind = "trigger",
                             !.function.rettype = ProcInfo(fr.fn_oid).prorettype]
         IN Push(base, f, tbl, storage, ctxs, spi_stack, sub,
                 Event("call_handler", "script", f, spi_stack, storage))
    ELSE LET new == [call |-> fr.call, function |-> fr.fn_oid, return_state |-> FALSE]
             sto == store_storage_in_context(storage, fr.ctx, new)
             spi == SPI_connect(spi_stack, sub, fr.call)
             f == [fr EXCEPT !.pc = "script", !.old_storage = storage[fr.ctx],
                             !.kind = IF fr.function.is_srf THEN "srf" ELSE "plain"]
         IN IF fr.function.is_srf
              THEN IF \/ ~ProcInfo(fr.fn_oid).proretset
                      \/ /\ fr.function.rettype = "record"
                         /\ fr.function.typeclass # "COMPOSITE"
                     THEN Raise(fr.saved, base, tbl, sto, ctxs,
                                Event("call_handler", "srf_context_error", f, spi, sto))
                     ELSE Push(base, f, tbl,
                               [sto EXCEPT ![fr.ctx].return_state = TRUE],
                               ctxs, spi, sub,
                               Event("call_handler", "script", f, spi, sto))
              ELSE Push(base, f, tbl, sto, ctxs, spi, sub,
                        Event("call_handler", "script", f, spi, sto))

\* The context registration of lines 594-596 and 688-690.
RegisterContext(fr) ==
  IF fr.need_add
    THEN pljs_cache_context_add(pljs_context_HashTable, userId, fr.ctx,
                                fr.oom = "context")
    ELSE [error |-> "", table |-> pljs_context_HashTable]

\* Lines 594-613 with the function entry stored before the result of the
\* compilation is looked at.
CallProceedStoreFirst(base, fr, ctxs, sub) ==
  LET add == RegisterContext(fr)
      function == setup_function(fr.fn_oid, userId, prosrc[fr.fn_oid])
      c == pljs_compile_function(fr.ctx, function, fr.call, "call_handler")
      context == [ctx |-> fr.ctx, js_function |-> c.func, function |-> function]
      fadd == pljs_cache_function_add(add.table, context, FALSE)
      f == [fr EXCEPT !.js_function = c.func, !.function = function]
  IN IF add.error # ""
       THEN Raise(fr.saved, base, add.table, storage, ctxs,
                  Event("call_handler", add.error, fr, spi_stack, storage))
       ELSE IF c.error
         THEN Raise(fr.saved, base, fadd.table, storage, ctxs,
                    Event("call_handler", "compile_error", fr, spi_stack, storage))
         ELSE Dispatch(base, f, fadd.table, ctxs, sub)

\* Lines 594-613: register a new context, build the descriptor, compile and
\* store the function entry.
CallProceed(base, fr, ctxs, sub) ==
  LET add == RegisterContext(fr)
      function == setup_function(fr.fn_oid, userId, prosrc[fr.fn_oid])
      c == pljs_compile_function(fr.ctx, function, fr.call, "call_handler")
      context == [ctx |-> fr.ctx, js_function |-> c.func, function |-> function]
      fadd == pljs_cache_function_add(add.table, context, fr.oom = "function")
      f == [fr EXCEPT !.js_function = c.func, !.function = function]
  IN IF add.error # ""
       THEN Raise(fr.saved, base, add.table, storage, ctxs,
                  Event("call_handler", add.error, fr, spi_stack, storage))
       ELSE IF c.error
         THEN Raise(fr.saved, base, add.table, storage, ctxs,
                    Event("call_handler", "compile_error", fr, spi_stack, storage))
         ELSE IF fadd.error = "crash"
           THEN Crash
           ELSE IF fadd.error # ""
             THEN Raise(fr.saved, base, fadd.table, storage, ctxs,
                        Event("call_handler", fadd.error, f, spi_stack, storage))
             ELSE Dispatch(base, f, fadd.table, ctxs, sub)

\* pljs_inline_handler, lines 688-697: register a new context, connect, and
\* evaluate the wrapped block.
InlineProceed(base, fr, ctxs, sub) ==
  LET add == RegisterContext(fr)
      spi == SPI_connect(spi_stack, sub, fr.call)
      f == [fr EXCEPT !.pc = "script", !.kind = "inline"]
  IN IF add.error # ""
       THEN Raise(fr.saved, base, add.table, storage, ctxs,
                  Event("inline_handler", add.error, fr, spi_stack, storage))
       ELSE Push(base, f, add.table, storage, ctxs, spi, sub,
                 Event("inline_handler", "script", f, spi, storage))

Proceed(base, fr, ctxs, sub) ==
  IF fr.handler = "call" THEN CallProceed(base, fr, ctxs, sub)
  ELSE InlineProceed(base, fr, ctxs, sub)

\* setup_start_proc that never calls the start routine.
setup_start_proc_not_called(base, fr, ctxs, sub) == Proceed(base, fr, ctxs, sub)

\* setup_start_proc: find or compile the start routine and call it in the
\* new context; a failure to find or compile it is only a warning.
setup_start_proc(base, fr, ctxs, sub) ==
  LET r == pljs_find_js_function(pljs_context_HashTable, userId, "add",
                                 fr.ctx, fr.call, "start_proc")
  IN IF r.error
       THEN Proceed(base, fr, ctxs, sub)
       ELSE Push(base, fr, pljs_context_HashTable, storage, ctxs, spi_stack, sub,
                 Event(fr.handler \o "_handler", "start_proc", fr, spi_stack,
                       storage))

\* A context-cache miss, lines 580-596 and 674-690: JS_NewContext, the
\* namespace, the start routine when configured, then the registration.
CreateContext(handler, fn_oid, sub, oom) ==
  LET ctxs == Append(ctx_creator, userId)
      fr == NewFrame(handler, fn_oid, Len(ctxs), TRUE, oom)
  IN IF start_proc
       THEN setup_start_proc(stack, fr, ctxs, sub)
       ELSE Proceed(stack, fr, ctxs, sub)

\* pljs_call_handler from its entry to the first entry into the script.
pljs_call_handler(fn_oid, oom) ==
  LET sub == ExecuteBegin
      function_entry ==
        pljs_cache_function_find(pljs_context_HashTable, userId, fn_oid)
      entry == pljs_cache_context_find(pljs_context_HashTable, userId)
  IN /\ call_count < MaxCalls
     /\ call_count' = call_count + 1
     /\ UNCHANGED start_proc
     /\ \E ptr \in PointerOutcomes(pljs_context_HashTable, userId, fn_oid) :
          IF ptr = "crash"
            THEN Crash
            ELSE IF function_entry # {}
              \* what the uninitialised fields of a pljs_func may hold:
              \* zeroes, the image of a set-returning routine's pljs_func
              \* built earlier in the same memory, or by coincidence the
              \* values of the routine itself
              THEN \E garbage \in
                        {[is_srf |-> FALSE, nargs |-> 0, typeclass |-> "SCALAR",
                          rettype |-> "invalid"]}
                        \cup {[is_srf |-> ProcInfo(f).proretset,
                                nargs |-> Len(ProcInfo(f).argmodes),
                                typeclass |-> ProcInfo(f).typeclass,
                                rettype |-> ProcInfo(f).prorettype] :
                                 f \in {"series", fn_oid}} :
                     LET context == pljs_function_cache_to_context(
                                      CHOOSE f \in function_entry : TRUE, garbage)
                         fr == [NewFrame("call", fn_oid, context.ctx, FALSE, oom)
                                  EXCEPT !.hit = TRUE,
                                         !.js_function = context.js_function,
                                         !.function = context.function]
                     IN Dispatch(stack, fr, pljs_context_HashTable, ctx_creator, sub)
              ELSE IF entry # {}
                THEN CallProceed(stack,
                                 NewFrame("call", fn_oid,
                                          (CHOOSE e \in entry : TRUE).ctx, FALSE,
                                          oom),
                                 ctx_creator, sub)
                ELSE CreateContext("call", fn_oid, sub, oom)

\* pljs_inline_handler from its entry to the evaluation of the block.
pljs_inline_handler(oom) ==
  LET sub == ExecuteBegin
      entry == pljs_cache_context_find(pljs_context_HashTable, userId)
  IN /\ call_count < MaxCalls
     /\ call_count' = call_count + 1
     /\ UNCHANGED start_proc
     /\ IF entry # {}
          THEN InlineProceed(stack,
                             NewFrame("inline", "-",
                                      (CHOOSE e \in entry : TRUE).ctx, FALSE, oom),
                             ctx_creator, sub)
          ELSE CreateContext("inline", "-", sub, oom)

\* -------------------------------------------------------------- actions
\* A statement is issued at top level, or by a running script through
\* pljs.execute, which needs an SPI connection (SPI_exec otherwise returns
\* SPI_ERROR_UNCONNECTED and nothing is executed).
Issued == stack = <<>> \/ spi_stack # <<>>

\* SELECT of a routine, or a row change firing the trigger routine.
CallFunction(fn_oid) ==
  /\ Issued
  /\ Len(stack) < MaxDepth
  /\ pljs_call_handler(fn_oid, "none")

\* DO block.
InlineBlock ==
  /\ Issued
  /\ Len(stack) < MaxDepth
  /\ pljs_inline_handler("none")

\* SET ROLE.
SetRole(u) ==
  /\ Issued
  /\ u # userId
  /\ userId' = u
  /\ ev' = NoEvent
  /\ UNCHANGED <<start_proc, prosrc, pljs_context_HashTable, ctx_creator,
                 storage, stack, spi_stack, subxact_stack, call_count, served,
                 return_states, enc, os_pending_signals>>

\* A validator that resets the caches before it evaluates the source.
pljs_call_validator_reset_first(fn_oid, src) ==
  /\ Issued
  /\ stack = <<>> <=> fn_oid \in Fns
  /\ prosrc' = IF fn_oid \in Fns /\ ValidatorAccepts(src)
                 THEN [prosrc EXCEPT ![fn_oid] = src]
                 ELSE prosrc
  /\ pljs_context_HashTable' = pljs_cache_reset
  /\ served' = {}
  /\ ev' = [NoEvent EXCEPT
              !.op = "validator",
              !.outcome = IF ValidatorAccepts(src) THEN "validated"
                          ELSE "validation_error"]
  /\ UNCHANGED <<userId, start_proc, ctx_creator, storage, stack, spi_stack,
                 subxact_stack, call_count, return_states, enc,
                 os_pending_signals>>

\* CREATE OR REPLACE FUNCTION in this process: pljs_call_validator.  A body
\* that fails the compile-only evaluation raises an error and the statement
\* is rolled back; otherwise the caches are reset.  At top level the routine
\* is one of the routines followed here; a running script creates a routine
\* other than those.
pljs_call_validator(fn_oid, src) ==
  /\ Issued
  /\ stack = <<>> <=> fn_oid \in Fns
  /\ IF ValidatorAccepts(src)
       THEN /\ prosrc' = IF fn_oid \in Fns THEN [prosrc EXCEPT ![fn_oid] = src]
                          ELSE prosrc
            /\ pljs_context_HashTable' = pljs_cache_reset
            /\ served' = {}
       ELSE UNCHANGED <<prosrc, pljs_context_HashTable, served>>
  /\ ev' = [NoEvent EXCEPT
              !.op = "validator",
              !.outcome = IF ValidatorAccepts(src) THEN "validated"
                          ELSE "validation_error"]
  /\ UNCHANGED <<userId, start_proc, ctx_creator, storage, stack, spi_stack,
                 subxact_stack, call_count, return_states, enc,
                 os_pending_signals>>

\* CREATE OR REPLACE FUNCTION committed by another backend: the catalog
\* changes, the validator ran in the other process and reset its own caches.
CreateFunctionElsewhere(fn_oid, src) ==
  /\ stack = <<>>
  /\ ValidatorAccepts(src)
  /\ src # prosrc[fn_oid]
  /\ prosrc' = [prosrc EXCEPT ![fn_oid] = src]
  /\ ev' = NoEvent
  /\ UNCHANGED <<userId, start_proc, pljs_context_HashTable, ctx_creator,
                 storage, stack, spi_stack, subxact_stack, call_count, served,
                 return_states, enc, os_pending_signals>>

\* pljs.find_function called by the running script.
pljs_find_function(fn_oid) ==
  /\ stack # <<>>
  /\ UNCHANGED <<start_proc, call_count>>
  /\ \E ptr \in PointerOutcomes(pljs_context_HashTable, userId, fn_oid) :
       IF ptr = "crash"
         THEN Crash
         ELSE /\ LET r == pljs_find_js_function(pljs_context_HashTable, userId,
                                                fn_oid, Top.ctx, Top.call,
                                                "find_function")
                 IN ev' = [NoEvent EXCEPT
                             !.op = "find_function",
                             !.outcome = IF r.error THEN "not_found"
                                         ELSE IF r.hit THEN "hit" ELSE "compiled",
                             !.principal = userId, !.fn_oid = fn_oid,
                             !.hit = r.hit]
              /\ UNCHANGED <<userId, prosrc, pljs_context_HashTable, ctx_creator,
                             storage, stack, spi_stack, subxact_stack, served,
                             return_states, enc, os_pending_signals>>

\* The start routine returns: the handler goes on with the registration.
StartProcReturn ==
  /\ stack # <<>>
  /\ Top.pc = "start_proc"
  /\ Proceed(Below, Top, ctx_creator, subxact_stack)
  /\ UNCHANGED <<start_proc, call_count>>

\* The start routine throws: ereport(ERROR) before the registration.
StartProcThrow ==
  /\ stack # <<>>
  /\ Top.pc = "start_proc"
  /\ Raise(Top.saved, Below, pljs_context_HashTable, storage, ctx_creator,
           Event(Top.handler \o "_handler", "start_proc_error", Top, spi_stack,
                 storage))
  /\ UNCHANGED <<start_proc, call_count>>

\* The script returns a value.  call_function and call_srf_function close
\* their connection, convert the result (which can raise) and, back in the
\* handler, put the old storage back; call_trigger converts the result;
\* pljs_inline_handler closes its connection.
ScriptReturn(converts) ==
  /\ stack # <<>>
  /\ Top.pc = "script"
  /\ LET op == Top.handler \o "_handler"
         spi == IF Top.kind = "trigger" THEN spi_stack ELSE SPI_finish(spi_stack)
         sto == IF Top.kind \in {"plain", "srf"}
                  THEN store_storage_in_context(storage, Top.ctx, Top.old_storage)
                  ELSE storage
     IN IF ~converts /\ Top.kind # "inline"
          THEN Raise(Top.saved, Below, pljs_context_HashTable, storage,
                     ctx_creator, Event(op, "convert_error", Top, spi, storage))
          ELSE /\ converts
               /\ Return(Below, sto, spi, Event(op, "returned", Top, spi, sto))
  /\ UNCHANGED <<start_proc, call_count>>

\* The script ends with an exception.  call_function and call_srf_function
\* close their connection before they raise; call_trigger and
\* call_anonymous_function raise at once.
ScriptThrow ==
  /\ stack # <<>>
  /\ Top.pc = "script"
  /\ LET spi == IF Top.kind \in {"plain", "srf"} THEN SPI_finish(spi_stack)
                ELSE spi_stack
     IN Raise(Top.saved, Below, pljs_context_HashTable, storage, ctx_creator,
              Event(Top.handler \o "_handler", "script_exception", Top, spi,
                    storage))
  /\ UNCHANGED <<start_proc, call_count>>

\* ------------------------------------------- set-returning calls, triggers
\* The script values that the scripts of the runs explored pass to
\* pljs.return_next, return from a set-returning routine and return from a
\* trigger routine.
ObjFull(v) ==
  JS_NewObject({Property("n", JS_NewNumber(v)), Property("label", JS_NewString("x"))})

ObjNoLabel == JS_NewObject({Property("n", JS_NewNumber("1"))})

ObjUndefinedLabel ==
  JS_NewObject({Property("n", JS_NewNumber("1")), Property("label", JS_UNDEFINED)})

\* An object with a property named as the dropped column of t and a
\* property whose name is no column's, and none for the column label.
ObjOtherNames ==
  JS_NewObject({Property("n", JS_NewNumber("1")),
                Property("pg.dropped.2", JS_NewString("x")),
                Property("other", JS_NewString("x"))})

tg_trigtuple ==
  heap_form_tuple(TupleDescOf("t"),
                  <<ScalarDatum("int4", "1"), ZeroDatum, ScalarDatum("text", "x")>>,
                  <<FALSE, TRUE, FALSE>>)

tg_newtuple ==
  heap_form_tuple(TupleDescOf("t"),
                  <<ScalarDatum("int4", "2"), ZeroDatum, ScalarDatum("text", "x")>>,
                  <<FALSE, TRUE, FALSE>>)

\* tuplestore_putvalues: one row at the end of the tuplestore.
tuplestore_putvalues(state, values, nulls) ==
  [state EXCEPT !.tuple_store_state = Append(@, [values |-> values, nulls |-> nulls])]

ReturnNextEvent(outcome, val) ==
  [Event("return_next", outcome, Top, spi_stack, storage) EXCEPT !.val = val]

\* js_throw: the script gets an exception, nothing else changes.
ReturnNextThrow(outcome, val) ==
  /\ ev' = ReturnNextEvent(outcome, val)
  /\ UNCHANGED <<userId, prosrc, pljs_context_HashTable, ctx_creator, storage,
                 stack, spi_stack, subxact_stack, served, return_states, enc, os_pending_signals>>

ReturnNextPut(call, values, nulls, val) ==
  /\ return_states' = [return_states EXCEPT
                         ![call] = tuplestore_putvalues(@, values, nulls)]
  /\ ev' = ReturnNextEvent("appended", val)
  /\ UNCHANGED <<userId, prosrc, pljs_context_HashTable, ctx_creator, storage,
                 stack, spi_stack, subxact_stack, served, enc, os_pending_signals>>

\* pljs.return_next(val) called by the running script.  The storage slot of
\* the context holds NULL when no call has stored anything in it, and the
\* address of freed memory when the call that stored it has ended by an
\* error: reading through the first ends the process, reading through the
\* second ends it, finds a null return state, or finds the freed return
\* state and writes to freed memory.
pljs_return_next(val) ==
  /\ stack # <<>>
  /\ Top.pc = "script"
  /\ UNCHANGED <<start_proc, call_count>>
  /\ LET slot == storage[Top.ctx]
     IN IF slot = NullStorage
          THEN CrashWith(ReturnNextEvent("crash", val))
        ELSE IF ~\E fr \in Frames : fr.call = slot.call
          THEN \E o \in {"crash", "exception", "freed"} :
                 IF o = "crash" THEN CrashWith(ReturnNextEvent("crash", val))
                 ELSE ReturnNextThrow(o, val)
        ELSE IF ~slot.return_state
          THEN ReturnNextThrow("exception", val)
        ELSE LET retstate == return_states[slot.call]
             IN /\ Len(retstate.tuple_store_state) < MaxRows
                /\ IF retstate.is_composite
                     THEN IF \/ ~JS_IsObject(val)
                             \/ ~pljs_jsvalue_object_contains_all_column_names(
                                   val, retstate.tuple_desc)
                            THEN ReturnNextThrow("exception", val)
                            ELSE LET d == pljs_jsvalue_to_datums(val, retstate.tuple_desc)
                                 IN ReturnNextPut(slot.call, d.values, d.nulls, val)
                     ELSE LET r == pljs_jsvalue_to_datum(
                                     val, retstate.tuple_desc[1].atttypid, FALSE, TRUE)
                              ub == r.ub \/ Len(retstate.tuple_desc) > 1
                          IN IF r.error # ""
                               THEN Raise(Top.saved, Below, pljs_context_HashTable,
                                          storage, ctx_creator,
                                          ReturnNextEvent("encode_error", val))
                               ELSE \E o \in IF ub THEN {"crash", "stored"}
                                             ELSE {"stored"} :
                                      IF o = "crash"
                                        THEN CrashWith(ReturnNextEvent("crash", val))
                                      ELSE ReturnNextPut(slot.call, <<r.datum>>,
                                                         <<r.isnull>>, val)

\* call_srf_function, lines 1183-1221: the rows appended for the value the
\* body returned.  A composite row is read from argv[0], the first argument
\* of the call; the null flag of the loop over an array is set by an element
\* and never cleared.
SrfReturnRows(ret, state, argv0) ==
  IF JS_IsUndefined(ret) \/ JS_IsNull(ret)
    THEN [error |-> "", ub |-> FALSE, rows |-> <<>>]
  ELSE IF state.is_composite
    THEN LET d == pljs_jsvalue_to_datums(argv0, state.tuple_desc)
         IN [error |-> "", ub |-> FALSE,
             rows |-> <<[values |-> d.values, nulls |-> d.nulls]>>]
  ELSE IF JS_IsArray(ret)
    THEN LET rs == [i \in 1..pljs_js_array_length(ret) |->
                      pljs_jsvalue_to_datum(JS_GetPropertyUint32(ret, i - 1),
                                            state.tuple_desc[1].atttypid,
                                            FALSE, TRUE)]
             fe == FirstError(rs)
         IN [error |-> fe.error, ub |-> fe.ub,
             rows |-> [i \in 1..(fe.first - 1) |->
                         [values |-> <<rs[i].datum>>,
                          nulls |-> <<\E j \in 1..i : rs[j].isnull>>]]]
  ELSE LET r == pljs_jsvalue_to_datum(ret, state.tuple_desc[1].atttypid,
                                       FALSE, TRUE)
       IN [error |-> r.error, ub |-> r.ub,
           rows |-> IF r.error # "" THEN <<>>
                    ELSE <<[values |-> <<r.datum>>, nulls |-> <<r.isnull>>]>>]

\* The body of a set-returning call returns `ret`: call_srf_function from
\* line 1171, then line 643 of the handler.  The tuplestore goes to the
\* executor as rsinfo->setResult.
SrfReturn(ret) ==
  /\ stack # <<>>
  /\ Top.pc = "script"
  /\ Top.kind = "srf"
  /\ UNCHANGED <<start_proc, call_count>>
  \* argv[0]: the routines are called with the integer 1
  /\ \E argv0 \in {JS_NewNumber("1")} :
       LET state == return_states[Top.call]
           spi == SPI_finish(spi_stack)
           sto == store_storage_in_context(storage, Top.ctx, Top.old_storage)
           a == SrfReturnRows(ret, state, argv0)
           rows == state.tuple_store_state \o a.rows
       IN \E o \in IF a.ub THEN {"crash", "continue"} ELSE {"continue"} :
            IF o = "crash"
              THEN CrashWith([Event("call_handler", "crash", Top, spi, storage)
                                EXCEPT !.val = ret,
                                       !.rows = state.tuple_store_state])
            ELSE IF a.error # ""
              THEN Raise(Top.saved, Below, pljs_context_HashTable, storage,
                         ctx_creator,
                         [Event("call_handler", "convert_error", Top, spi, storage)
                            EXCEPT !.val = ret, !.rows = rows])
              ELSE Return(Below, sto, spi,
                          [Event("call_handler", "returned", Top, spi, sto)
                             EXCEPT !.val = ret, !.rows = rows])

\* call_trigger with the test for null left out of line 981: null is
\* treated as undefined.
call_trigger_result_null_as_undefined(event, ret, rettype) ==
  LET result == IF event.level # "ROW" THEN ZeroDatum
                ELSE IF event.op = "UPDATE" THEN tg_newtuple ELSE tg_trigtuple
  IN IF event.level # "ROW"
       THEN EncResult("", FALSE, ZeroDatum, FALSE, FALSE)
     ELSE IF ~JS_IsUndefined(ret) /\ ~JS_IsNull(ret)
       THEN pljs_jsvalue_to_record(ret, pljs_type_fill(rettype), FALSE,
                                   TupleDescOf("t"))
     ELSE EncResult("", FALSE, result, FALSE, FALSE)

\* call_trigger, lines 886-913 and 981-999: the Datum returned for the
\* script result `ret` of a trigger fired by `event`.
call_trigger_result(event, ret, rettype) ==
  LET result == IF event.level # "ROW" THEN ZeroDatum
                ELSE IF event.op = "UPDATE" THEN tg_newtuple ELSE tg_trigtuple
  IN IF JS_IsNull(ret) \/ event.level # "ROW"
       THEN EncResult("", FALSE, ZeroDatum, FALSE, FALSE)
     ELSE IF ~JS_IsUndefined(ret)
       THEN pljs_jsvalue_to_record(ret, pljs_type_fill(rettype), FALSE,
                                   TupleDescOf("t"))
     ELSE EncResult("", FALSE, result, FALSE, FALSE)

\* The trigger routine fired by `event` returns `ret`.  The event is part of
\* the call's TriggerData; nothing before the return depends on it.
TriggerReturn(event, ret) ==
  /\ stack # <<>>
  /\ Top.pc = "script"
  /\ Top.kind = "trigger"
  /\ UNCHANGED <<start_proc, call_count>>
  /\ LET r == call_trigger_result(event, ret, Top.function.rettype)
     IN \E o \in IF r.ub THEN {"crash", "continue"} ELSE {"continue"} :
          IF o = "crash"
            THEN CrashWith([Event("call_handler", "crash", Top, spi_stack, storage)
                              EXCEPT !.val = ret, !.tg = event])
          ELSE IF r.error # ""
            THEN Raise(Top.saved, Below, pljs_context_HashTable, storage,
                       ctx_creator,
                       [Event("call_handler", "convert_error", Top, spi_stack,
                              storage) EXCEPT !.val = ret, !.tg = event])
            ELSE Return(Below, storage, spi_stack,
                        [Event("call_handler", "returned", Top, spi_stack, storage)
                           EXCEPT !.val = ret, !.datum = r.datum, !.tg = event])

\* The script of a plain call or an inline block returns.
PlainReturn(converts) ==
  /\ stack # <<>>
  /\ Top.kind \in {"plain", "inline"}
  /\ ScriptReturn(converts)

Init ==
  /\ userId = 1
  /\ start_proc \in BOOLEAN
  /\ prosrc = [f \in Fns |-> "v1"]
  /\ pljs_context_HashTable = {}
  /\ ctx_creator = <<>>
  /\ storage = [c \in Contexts |-> NullStorage]
  /\ stack = <<>>
  /\ spi_stack = <<>>
  /\ subxact_stack = <<>>
  /\ call_count = 0
  /\ served = {}
  /\ ev = NoEvent
  /\ return_states = [c \in Calls |-> NoReturnState]
  /\ enc = NoEncoding
  /\ os_pending_signals = FALSE

Next ==
  \/ \E fn_oid \in Fns : CallFunction(fn_oid)
  \/ InlineBlock
  \/ \E u \in Users : SetRole(u)
  \/ \E fn_oid \in Redefined \cup {"other"}, src \in Sources \cup {"invalid"} :
       pljs_call_validator(fn_oid, src)
  \/ \E fn_oid \in Redefined, src \in Sources : CreateFunctionElsewhere(fn_oid, src)
  \/ \E fn_oid \in Redefined : pljs_find_function(fn_oid)
  \/ StartProcReturn
  \/ StartProcThrow
  \/ \E converts \in BOOLEAN : ScriptReturn(converts)
  \/ ScriptThrow

Spec == Init /\ [][Next]_vars

\* The initial state with no start routine configured.
InitRows == Init /\ ~start_proc

\* The calls of the backend when memory can run out inside the cache's add
\* functions, with no start routine configured.
NextOOM ==
  \/ \E fn_oid \in Fns : CallFunction(fn_oid)
  \* a call during which the allocation named by `oom` fails: the memory
  \* context or hash table of a new context entry, or the copy of the
  \* source of a new function entry
  \/ \E fn_oid \in Fns, oom \in {"context", "function"} :
       /\ Issued
       /\ Len(stack) < MaxDepth
       /\ pljs_call_handler(fn_oid, oom)
  \/ \E u \in Users : SetRole(u)
  \/ \E fn_oid \in Redefined : pljs_find_function(fn_oid)
  \/ \E converts \in BOOLEAN : ScriptReturn(converts)
  \/ ScriptThrow

SpecOOM == InitRows /\ [][NextOOM]_vars

\* The calls of every kind, nested or not, whose scripts call
\* pljs.return_next, with no start routine configured.
NextRows ==
  \/ \E fn_oid \in Fns : CallFunction(fn_oid)
  \/ InlineBlock
  \/ pljs_return_next(ObjFull("1"))
  \/ SrfReturn(JS_UNDEFINED)
  \/ TriggerReturn([level |-> "ROW", op |-> "INSERT"], JS_UNDEFINED)
  \/ \E converts \in BOOLEAN : PlainReturn(converts)
  \/ ScriptThrow

SpecRows == InitRows /\ [][NextRows]_vars

\* The state of a backend that has run nothing yet, with no start routine
\* configured.
InitBackend ==
  /\ userId = 1
  /\ start_proc = FALSE
  \* with two more set-returning routines: one that returns a set of text
  \* values and one that returns rows of the table t
  /\ prosrc = [f \in Fns \cup {"numbers", "rows"} |-> "v1"]
  /\ pljs_context_HashTable = {}
  /\ ctx_creator = <<>>
  /\ storage = [c \in Contexts |-> NullStorage]
  /\ stack = <<>>
  /\ spi_stack = <<>>
  /\ subxact_stack = <<>>
  /\ call_count = 0
  /\ served = {}
  /\ ev = NoEvent
  /\ return_states = [c \in Calls |-> NoReturnState]
  /\ os_pending_signals = FALSE

\* A backend that has run nothing yet and the input that the functions of
\* a specification are applied to.
InitInput(input) == InitBackend /\ input

\* The set-returning calls with the rows their scripts emit and return.
NextEmit ==
  \/ \E fn_oid \in {"numbers", "rows"} : CallFunction(fn_oid)
  \/ \E val \in {JS_NULL, JS_NewString("x"), ObjFull("1"), ObjFull("2"),
                 ObjNoLabel, ObjUndefinedLabel} :
       pljs_return_next(val)
  \/ \E ret \in {JS_UNDEFINED, JS_NULL, JS_NewString("x"), ObjFull("2"),
                 ObjNoLabel,
                 JS_NewArray(<<JS_NewString("x"), JS_NewNumber("1")>>),
                 JS_NewArray(<<JS_NULL, JS_NewString("x")>>)} :
       SrfReturn(ret)
  \/ ScriptThrow

SpecEmit == InitInput(enc = NoEncoding) /\ [][NextEmit]_vars

\* The trigger calls with the rows their scripts return.
NextTrigger ==
  \/ CallFunction("trg")
  \/ \E u \in Users : SetRole(u)
  \/ \E l \in {"ROW", "STATEMENT"}, o \in {"INSERT", "UPDATE", "DELETE"},
        ret \in {JS_UNDEFINED, JS_NULL, ObjFull("2"), ObjNoLabel} :
       TriggerReturn([level |-> l, op |-> o], ret)
  \/ ScriptThrow

SpecTrigger == InitRows /\ [][NextTrigger]_vars

\* ------------------------------------------------- the encoders, applied
\* The inputs of pljs_jsvalue_to_datum, with or without call info, and the
\* script results of a plain call of a routine that returns rettype.
EncoderInputs ==
  LET EncodeValues ==
        {JS_NULL, JS_UNDEFINED, JS_NewNumber("1"), JS_NewString("x"),
         JSValue("Date", "0", <<>>, {}),
         ObjFull("1"), ObjNoLabel, ObjUndefinedLabel, ObjOtherNames,
         JS_NewObject({Property("n", JS_NewNumber("1")),
                       Property("label", JS_NULL)}),
         JS_NewArray(<<>>),
         JS_NewArray(<<JS_NewNumber("1"), JS_NewNumber("2")>>),
         JS_NewArray(<<JS_NewNumber("1"), JS_NULL>>),
         JS_NewArray(<<JS_UNDEFINED, JS_NewNumber("2")>>),
         JS_NewArray(<<JS_NewString("x")>>),
         JS_NewTypedArray("Uint8Array", <<JS_NewNumber("1"), JS_NewNumber("2")>>),
         JS_NewTypedArray("Int16Array", <<JS_NewNumber("1")>>),
         JS_NewTypedArray("Int32Array", <<JS_NewNumber("1")>>),
         JS_NewTypedArray("ArrayBuffer", <<JS_NewNumber("1"), JS_NewNumber("2")>>)}
      Types == {"int4", "text", "bytea", "json", "_int4", "_text", "t", "record"}
  IN
  {e \in {[NoEncoding EXCEPT !.via = via, !.val = val, !.rettype = rettype,
                             !.fcinfo = fcinfo] :
            via \in {"pljs_jsvalue_to_datum", "call_function"},
            val \in EncodeValues, rettype \in Types, fcinfo \in BOOLEAN} :
     e.via = "call_function" => e.fcinfo}

\* get_call_result_type for a routine declared to return record: the row
\* descriptor of the call site.
get_call_result_type == TupleDescOf("series")

\* call_function, lines 1058-1078: the conversion of the script result.  The
\* host takes the result for NULL when fcinfo->isnull is set.
call_function_result(ret, rettype) ==
  IF rettype = "record"
    THEN pljs_jsvalue_to_record(ret, pljs_type_fill(rettype), FALSE,
                                get_call_result_type)
    ELSE pljs_jsvalue_to_datum(ret, rettype, TRUE, TRUE)

\* The encoder is applied.  A write through a NULL pointer ends the process
\* or goes unnoticed.
Applied(r) ==
  /\ ~enc.done
  /\ \E crashed \in IF r.ub THEN BOOLEAN ELSE {FALSE} :
       enc' = [enc EXCEPT !.done = TRUE, !.crashed = crashed, !.res = r]
  /\ UNCHANGED <<userId, start_proc, prosrc, pljs_context_HashTable,
                 ctx_creator, storage, stack, spi_stack, subxact_stack,
                 call_count, served, ev, return_states, os_pending_signals>>

NextEncode ==
  \/ /\ enc.via = "pljs_jsvalue_to_datum"
     /\ Applied(pljs_jsvalue_to_datum(enc.val, enc.rettype, enc.fcinfo, TRUE))
  \/ /\ enc.via = "call_function"
     /\ Applied(call_function_result(enc.val, enc.rettype))

SpecEncode == InitInput(enc \in EncoderInputs) /\ [][NextEncode]_vars

\* ------------------------------------------------------------ interrupts
\* signal_handler for SIGINT: the bit is set, whatever the backend is doing.
signal_handler ==
  /\ ~os_pending_signals
  /\ os_pending_signals' = TRUE
  /\ UNCHANGED <<userId, start_proc, prosrc, pljs_context_HashTable,
                 ctx_creator, storage, stack, spi_stack, subxact_stack,
                 call_count, served, ev, return_states, enc>>

\* The engine polls interrupt_handler while the script runs and the bit is
\* set: the script is ended by an exception that it cannot catch, JS_Call
\* returns the exception and the function that called the script raises the
\* host error as for any script exception.  Nothing clears the bit.
interrupt_handler ==
  /\ stack # <<>>
  /\ Top.pc = "script"
  /\ os_pending_signals
  /\ LET spi == IF Top.kind \in {"plain", "srf"} THEN SPI_finish(spi_stack)
                ELSE spi_stack
     IN Raise(Top.saved, Below, pljs_context_HashTable, storage, ctx_creator,
              Event(Top.handler \o "_handler", "interrupted", Top, spi,
                    storage))
  /\ UNCHANGED <<start_proc, call_count>>

\* The script of the running call completes with a result.  The engine has
\* polled the hook before: the script does not complete while the bit is set.
ScriptCompletes ==
  /\ ~os_pending_signals
  /\ \/ PlainReturn(TRUE)
     \/ SrfReturn(JS_UNDEFINED)
     \/ TriggerReturn([level |-> "ROW", op |-> "INSERT"], JS_UNDEFINED)

\* The calls of every kind, nested or not, with SIGINT arriving at any
\* time.  The engine goes on polling the hook and the scripts come to an end.
NextInterrupt ==
  \/ \E fn_oid \in Fns : CallFunction(fn_oid)
  \/ InlineBlock
  \/ signal_handler
  \/ interrupt_handler
  \/ ScriptCompletes

SpecInterrupt ==
  /\ InitRows
  /\ [][NextInterrupt]_vars
  /\ WF_vars(interrupt_handler)
  /\ WF_vars(ScriptCompletes)

\* ----------------------------------------------------------- pljs_reset
\* SELECT pljs_reset(): JS_FreeRuntime(rt), a new runtime, pljs_cache_reset.
\* No script context of the old runtime has been freed: JS_FreeRuntime with
\* contexts alive fails its assertion that no object is left, which ends the
\* process, or, built without assertions, frees the runtime under them.
pljs_reset ==
  /\ Issued
  /\ UNCHANGED <<start_proc, call_count>>
  /\ \E o \in IF ctx_creator # <<>> THEN {"crash", "continue"} ELSE {"continue"} :
       IF o = "crash"
         THEN /\ CrashWith([NoEvent EXCEPT !.op = "reset", !.outcome = "crash"])
              /\ UNCHANGED prosrc
         ELSE /\ pljs_context_HashTable' = pljs_cache_reset
              /\ served' = {}
              /\ ev' = [NoEvent EXCEPT !.op = "reset", !.outcome = "reset"]
              /\ UNCHANGED <<userId, prosrc, ctx_creator, storage, stack,
                             spi_stack, subxact_stack, return_states, enc,
                             os_pending_signals>>

\* The calls and blocks with the resets of the caches.
NextReset ==
  \/ \E fn_oid \in Fns : CallFunction(fn_oid)
  \/ InlineBlock
  \/ \E u \in Users : SetRole(u)
  \/ \E fn_oid \in Redefined \cup {"other"}, src \in Sources \cup {"invalid"} :
       pljs_call_validator(fn_oid, src)
  \/ pljs_reset
  \/ PlainReturn(TRUE)
  \/ ScriptThrow

SpecReset == InitRows /\ [][NextReset]_vars

\* ------------------------------------------------------------ properties
\* The handler invocation that enters its script in this step, having
\* completed its get-or-create request.
Completes ==
  /\ stack' # <<>>
  /\ stack'[Len(stack')].pc = "script"
  /\ \/ Len(stack') = Len(stack) + 1
     \/ /\ Len(stack') = Len(stack)
        /\ stack # <<>>
        /\ Top.pc = "start_proc"

\* The fields of a routine descriptor that the dispatcher reads.
DispatcherView(f) ==
  [is_srf |-> f.is_srf, trigger |-> f.trigger, rettype |-> f.rettype,
   typeclass |-> f.typeclass, inargs |-> f.inargs, nargs |-> f.nargs,
   argtypes |-> f.argtypes, argmodes |-> f.argmodes]

\* C1: every context entry and every function entry that a lookup for
\* principal u can return (pljs_cache_context_find, pljs_cache_function_find,
\* and through them the call handler and find_function) holds a script
\* context that was created while u was the current principal and a function
\* that was compiled for u.
C1_NoCrossPrincipalEntry ==
  \A u \in Users :
    \A e \in pljs_cache_context_find(pljs_context_HashTable, u) :
      /\ ctx_creator[e.ctx] = u
      /\ \A f \in e.function_hash_table.entries :
           /\ f.user_id = u
           /\ f.fn.user_id = u
           /\ ctx_creator[f.ctx] = u

\* C2: a call of a routine that is running its script runs a function that
\* was compiled from the routine's current source (the catalog does not
\* change while a call is in progress, so the current source is the source
\* the routine had when the call started).
C2_NoStaleBody ==
  \A fr \in Frames :
    fr.handler = "call" /\ fr.pc = "script"
      => fr.js_function.prosrc = prosrc[fr.fn_oid]

\* C3: after every step the context table holds at most one entry per
\* principal, and a step in which pljs_cache_context_add finds an entry for
\* the principal raises an error and leaves the context table as it was.
C3_OneContextPerPrincipal ==
  [][/\ \A u \in Users :
          Cardinality(pljs_cache_context_find(pljs_context_HashTable', u)) <= 1
     /\ ev'.outcome = "context_exists"
          => pljs_context_HashTable' = pljs_context_HashTable]_vars

\* C3 witness: a handler invocation was ended by the duplicate-context error
\* and the table holds the entry that was in the way, of the principal that
\* was current at the registration.
C3_DuplicateAddRaised ==
  /\ ev.outcome = "context_exists"
  /\ \E e \in pljs_context_HashTable : e.user_id # ev.principal

\* C4: when a get-or-create request completes and an earlier request for
\* the same principal completed since the last cache reset, the request
\* yields the context of the earlier one and creates no context; when the
\* earlier request was for the same routine, it yields the same function
\* value and compiles nothing.  No function table holds two entries for one
\* routine.
C4_RepeatedRequestYieldsSame ==
  [][/\ Completes =>
          LET fr == stack'[Len(stack')]
          IN \A y \in served :
               y.principal = fr.lookup_user =>
                 /\ y.ctx = fr.ctx
                 /\ ~fr.need_add
                 /\ (y.fn_oid = fr.fn_oid /\ fr.handler = "call") =>
                      fr.hit /\ fr.js_function = y.fn
     /\ \A e \in pljs_context_HashTable' :
          \A x, y \in e.function_hash_table.entries :
            x.fn_oid = y.fn_oid => x = y]_vars

\* C5: the routine descriptor of a call served from the function cache
\* equals, in every field the dispatcher reads, the descriptor that
\* setup_function builds for the routine, and the call kind selected is the
\* kind of the routine.
C5_HitDescriptorEqualsOriginal ==
  \A fr \in Frames :
    fr.hit =>
      /\ DispatcherView(fr.function) =
           DispatcherView(
             [setup_function(fr.fn_oid, fr.function.user_id, fr.function.prosrc)
                EXCEPT !.rettype = IF CalledAsTrigger(fr.fn_oid)
                                     THEN ProcInfo(fr.fn_oid).prorettype ELSE @])
      /\ fr.pc = "script" =>
           fr.kind = IF CalledAsTrigger(fr.fn_oid) THEN "trigger"
                     ELSE IF ProcInfo(fr.fn_oid).proretset THEN "srf"
                     ELSE "plain"

C7_EntriesFullyPopulated ==
  \A e \in pljs_context_HashTable :
    /\ e.ctx \in 1..Len(ctx_creator)
    /\ e.function_hash_table.valid
    /\ \A f \in e.function_hash_table.entries :
         /\ f.fn # NoJsFunction
         /\ f.ctx \in 1..Len(ctx_creator)
         /\ f.prosrc # "-"
         /\ Len(f.argtypes) = f.nargs
         /\ Len(f.argmodes) = f.nargs

\* C8: every handler invocation whose script has been entered has an SPI
\* connection and a subtransaction that the dispatcher opened for it.
C8_SavepointAndConnectionOpen ==
  \A fr \in Frames :
    fr.pc = "script" =>
      /\ (\E i \in 1..Len(spi_stack) : spi_stack[i].call = fr.call)
      /\ \E i \in 1..Len(subxact_stack) :
           /\ subxact_stack[i].call = fr.call
           /\ subxact_stack[i].opener = "dispatcher"

\* C9: when a handler raises the host error for a script exception, or
\* returns, no connection and no subtransaction that the dispatcher opened
\* for the invocation is still open.
C9_ReleasedBeforeRaise ==
  ev.outcome \in {"script_exception", "returned"} =>
    ev.spi_own = 0 /\ ev.sub_own = 0

\* C10: when pljs_call_handler is left, by return or by error, the storage
\* slot of the script context holds what it held when the call began.
C10_StorageRestoredOnExit ==
  /\ ev.op = "call_handler"
  /\ ev.outcome \in {"returned", "script_exception", "convert_error",
                    "srf_context_error", "compile_error", "context_exists",
                    "function_exists", "no_context", "out_of_memory",
                    "start_proc_error"}
  => ev.restored

\* The rows in the result buffer of invocation c.
Buffer(c) == return_states[c].tuple_store_state

\* C11: pljs.return_next appends to a result buffer only while the
\* set-returning call that created the buffer is the active call; called
\* during a plain call, a trigger call or an inline block (the first call of
\* the process, after a set-returning call has ended, or nested inside one)
\* it appends nothing and raises an error.
C11_EmitOnlyInActiveSetReturningCall ==
  [][ev'.op = "return_next" =>
       /\ \A c \in Calls :
            Len(return_states'[c].tuple_store_state) > Len(Buffer(c)) =>
              Top.call = c /\ Top.kind = "srf"
       /\ Top.kind # "srf" =>
            /\ ev'.outcome = "exception"
            /\ \A c \in Calls : return_states'[c] = return_states[c]]_vars

\* The step is a call of pljs.return_next by the script of a set-returning
\* call, and the step is the return of the body of a set-returning call.
EmitInSetReturningCall ==
  /\ ev'.op = "return_next"
  /\ stack # <<>>
  /\ Top.kind = "srf"

BodyReturns ==
  /\ ev'.op = "call_handler"
  /\ ev'.outcome \in {"returned", "convert_error", "crash"}
  /\ stack # <<>>
  /\ Top.kind = "srf"
  /\ Top.pc = "script"

\* The names of the columns of a row descriptor that are not dropped and
\* that the script value has no property for.
MissingColumns(val, tupdesc) ==
  {tupdesc[c].attname : c \in {i \in 1..Len(tupdesc) : ~tupdesc[i].attisdropped}}
    \ {p.name : p \in val.props}

\* C12: during a set-returning call, each call of pljs.return_next that
\* returns normally appends exactly one row at the end of the call's result
\* buffer and leaves every earlier row unchanged, so the buffer holds the
\* rows of the successful calls in call order.
C12_EmitAppendsOneRowInOrder ==
  [][EmitInSetReturningCall /\ ev'.outcome \in {"appended", "freed"} =>
       /\ Len(return_states'[Top.call].tuple_store_state)
            = Len(Buffer(Top.call)) + 1
       /\ SubSeq(return_states'[Top.call].tuple_store_state, 1,
                 Len(Buffer(Top.call))) = Buffer(Top.call)]_vars

\* C13: in a set-returning call of composite shape, pljs.return_next of a
\* value that is not an object, or that has no property for some column
\* that is not dropped, raises an error and leaves the result buffer as it
\* was; a value with a property for every column that is not dropped is not
\* refused, whatever the dropped columns are.
C13_MissingColumnRaisesBufferKept ==
  [][EmitInSetReturningCall /\ return_states[Top.call].is_composite =>
       IF \/ ev'.val.tag # "object"
          \/ MissingColumns(ev'.val, return_states[Top.call].tuple_desc) # {}
         THEN /\ ev'.outcome = "exception"
              /\ return_states' = return_states
         ELSE ev'.outcome = "appended"]_vars

\* C14: when the body of a set-returning call of composite shape returns an
\* object, exactly one row is appended after the emitted rows, with its
\* fields read from the properties of the returned object; when the object
\* has no property for some column that is not dropped an error is raised
\* instead.
C14_ReturnedObjectBecomesLastRow ==
  [][BodyReturns /\ return_states[Top.call].is_composite
       /\ ev'.val.tag = "object" =>
       LET desc == return_states[Top.call].tuple_desc
           row == pljs_jsvalue_to_datums(ev'.val, desc)
       IN IF MissingColumns(ev'.val, desc) # {}
            THEN ev'.outcome = "convert_error"
            ELSE /\ ev'.outcome = "returned"
                 /\ ev'.rows = Append(Buffer(Top.call),
                                      [values |-> row.values,
                                       nulls |-> row.nulls])]_vars

\* C15: when the body of a set-returning call of scalar shape returns, the
\* buffer holds the emitted rows in emission order, followed by one row for
\* each element of the returned array in element order, or by one row for a
\* returned value that is not an array; null and undefined append nothing.
C15_ScalarReturnAppendsElementsInOrder ==
  [][BodyReturns /\ ~return_states[Top.call].is_composite =>
       LET typid == return_states[Top.call].tuple_desc[1].atttypid
           ret == ev'.val
           elems == IF JS_IsNull(ret) \/ JS_IsUndefined(ret) THEN <<>>
                    ELSE IF JS_IsArray(ret) THEN ret.elems
                    ELSE <<ret>>
           Null(v) == JS_IsNull(v) \/ JS_IsUndefined(v)
       IN /\ ev'.outcome = "returned"
          /\ ev'.rows = Buffer(Top.call) \o
               [i \in 1..Len(elems) |->
                  [values |-> <<IF Null(elems[i]) THEN ZeroDatum
                                ELSE pljs_jsvalue_to_datum(elems[i], typid,
                                                           FALSE, TRUE).datum>>,
                   nulls |-> <<Null(elems[i])>>]]]_vars

\* The handler has returned from a trigger call fired for a row.
RowTriggerReturned ==
  /\ ev.op = "call_handler"
  /\ ev.kind = "trigger"
  /\ ev.tg.level = "ROW"

\* The row that fired the trigger: the new row for UPDATE, the trigger row
\* for INSERT and DELETE.
TriggeringRow(event) ==
  IF event.op = "UPDATE" THEN tg_newtuple ELSE tg_trigtuple

\* C16 as stated: for a trigger call fired for a row, a script result of
\* null or of undefined makes the dispatcher return the triggering row
\* unmodified, and any other result is encoded against the row descriptor
\* of the relation and returned as the effective row.
C16_NullOrUndefinedKeepsRow ==
  RowTriggerReturned =>
    /\ ev.outcome = "returned"
    /\ ev.datum =
         IF JS_IsNull(ev.val) \/ JS_IsUndefined(ev.val)
           THEN TriggeringRow(ev.tg)
           ELSE LET f == RecordFields(ev.val, TupleDescOf("t"))
                IN heap_form_tuple(TupleDescOf("t"),
                                   [c \in 1..Len(f) |-> f[c].datum],
                                   [c \in 1..Len(f) |-> f[c].isnull])

\* C16, amended: for a trigger call fired for a row, a script result of
\* undefined makes the dispatcher return the triggering row unmodified, a
\* script result of null makes it return the NULL pointer (no row: the host
\* skips the operation for the row), and any other result is encoded against
\* the row descriptor of the relation and returned as the effective row.
C16_UndefinedKeepsRowNullSkips ==
  RowTriggerReturned =>
    /\ ev.outcome = "returned"
    /\ ev.datum =
         IF JS_IsNull(ev.val) THEN ZeroDatum
         ELSE IF JS_IsUndefined(ev.val) THEN TriggeringRow(ev.tg)
         ELSE LET f == RecordFields(ev.val, TupleDescOf("t"))
              IN heap_form_tuple(TupleDescOf("t"),
                                 [c \in 1..Len(f) |-> f[c].datum],
                                 [c \in 1..Len(f) |-> f[c].isnull])

\* A trigger fired for the update of a row has returned for the script
\* result null.
C16_NullReturnedForRowUpdate ==
  /\ RowTriggerReturned
  /\ ev.outcome = "returned"
  /\ ev.tg.op = "UPDATE"
  /\ JS_IsNull(ev.val)

\* A script value that is null or undefined.
IsNullish(val) == JS_IsNull(val) \/ JS_IsUndefined(val)

\* C17: for every category of target type, and with or without call info,
\* encoding the script value null or undefined reports that the value is
\* null and raises no error; a plain call whose script result is null or
\* undefined returns NULL whatever its declared return type, and the encoder
\* called with no call info (as pljs.return_next calls it) gives a NULL
\* value.
C17_NullishEncodesAsNull ==
  enc.done /\ IsNullish(enc.val) =>
    /\ ~enc.crashed
    /\ enc.res.error = ""
    /\ enc.res.isnull \/ enc.res.fcinfo_isnull
    /\ enc.via = "call_function" => enc.res.fcinfo_isnull

\* C18: encoding a script array of length n against an array type gives an
\* array that is not null, of one dimension, lower bound 1 and n elements;
\* element i is the encoding of script element i and is null exactly when
\* script element i is null or undefined; the null flag of the call result is
\* not changed by the encoding of an element.
C18_ArrayElementsAndNulls ==
  enc.done /\ enc.via = "pljs_jsvalue_to_datum" /\ JS_IsArray(enc.val)
    /\ TypeCategory(enc.rettype) = "A" =>
    LET n == Len(enc.val.elems)
        elmtype == get_element_type(enc.rettype)
    IN /\ ~enc.crashed
       /\ enc.res.error = ""
       /\ enc.res.datum.kind = "array"
       /\ enc.res.datum.dims = <<n>>
       /\ enc.res.datum.lbs = <<1>>
       /\ Len(enc.res.datum.elems) = n
       /\ \A i \in 1..n :
            /\ enc.res.datum.nulls[i] = IsNullish(enc.val.elems[i])
            /\ ~IsNullish(enc.val.elems[i]) =>
                 enc.res.datum.elems[i]
                   = pljs_jsvalue_to_datum(enc.val.elems[i], elmtype,
                                           enc.fcinfo, TRUE).datum
       /\ ~enc.res.fcinfo_isnull
       /\ ~enc.res.isnull

\* C19: encoding a script value that is not null and not an array against
\* an array type raises an error and gives no array; an array value is
\* produced only when the target type is an array type.
C19_ArrayOnlyForArrayTargets ==
  enc.done /\ enc.via = "pljs_jsvalue_to_datum" =>
    /\ TypeCategory(enc.rettype) = "A" /\ ~JS_IsNull(enc.val)
         /\ ~JS_IsArray(enc.val) =>
         enc.res.error # ""
    /\ enc.res.error = "" /\ enc.res.datum.kind = "array" =>
         TypeCategory(enc.rettype) = "A"

\* C20: encoding to bytea a script value that is not null or undefined and
\* is not a typed array of 1, 2 or 4 byte elements, an ArrayBuffer or a
\* string raises an error: it gives neither a bytea value nor NULL.
C20_OtherShapesToByteaRaise ==
  enc.done /\ enc.via = "pljs_jsvalue_to_datum" /\ enc.rettype = "bytea"
    /\ ~IsNullish(enc.val)
    /\ enc.val.tag \notin {"Uint8Array", "Int16Array", "Int32Array",
                           "ArrayBuffer", "string"} =>
    /\ ~enc.crashed
    /\ enc.res.error # ""

\* The row descriptor against which the encoder input is encoded to a row:
\* the one of the named row type, or the one of the call site for a plain
\* call of a routine that returns record.
RowDescriptor ==
  IF enc.rettype = "t" THEN TupleDescOf("t") ELSE get_call_result_type

\* A script object has been encoded to a row.
ObjectEncodedToRow ==
  /\ enc.done
  /\ enc.val.tag = "object"
  /\ \/ enc.rettype = "t"
     \/ enc.rettype = "record" /\ enc.via = "call_function"

\* C21: the row encoded from a script object has, for each column that is
\* not dropped, a null field when the object has no property of the column's
\* name or the property is undefined or null, and otherwise the encoding of
\* the property under the column's type; a dropped column is null, and no
\* column is filled from a property of another name.
C21_FieldsByColumnName ==
  ObjectEncodedToRow =>
    /\ ~enc.crashed
    /\ enc.res.error = ""
    /\ enc.res.datum.kind = "row"
    /\ Len(enc.res.datum.elems) = Len(RowDescriptor)
    /\ \A c \in 1..Len(RowDescriptor) :
         LET att == RowDescriptor[c]
             named == {p \in enc.val.props : p.name = att.attname}
             absent == \/ att.attisdropped
                       \/ named = {}
                       \/ \A p \in named : IsNullish(p.val)
         IN /\ enc.res.datum.nulls[c] = absent
            /\ ~absent =>
                 \E p \in named :
                   enc.res.datum.elems[c]
                     = pljs_jsvalue_to_datum(p.val, att.atttypid, FALSE, TRUE).datum

\* An object with a property named as the dropped column and none for the
\* column label has been encoded to a row of the table t.
C21_OtherNamesEncoded ==
  /\ ObjectEncodedToRow
  /\ enc.val = ObjOtherNames
  /\ enc.rettype = "t"
  /\ enc.res.datum.nulls = <<FALSE, TRUE, TRUE>>

\* C22: when a call has been aborted because the interrupt hook found a
\* pending interrupt, the pending bit is clear when the error reaches the
\* host.
C22_FlagClearAfterAbort ==
  [][interrupt_handler /\ Len(stack) = 1 => ~os_pending_signals']_vars

\* C23: when SIGINT becomes pending while a script call is running and the
\* engine goes on polling the hook, the call is eventually aborted with an
\* error and returns no result.
C23_PendingInterruptAborts ==
  (stack # <<>> /\ Top.pc = "script" /\ os_pending_signals)
    ~> (ev.outcome = "interrupted")

\* C24: between two invalidations the source of a routine is compiled at
\* most once per principal.  A request that finds the routine in the cache of
\* the principal is served from the cache and compiles nothing; a request
\* that misses and compiles, made by the call handler or by find_function,
\* leaves the routine stored for that principal, so that the next request
\* finds it.
C24_CompiledAtMostOncePerPrincipal ==
  [][LET fr == stack'[Len(stack')]
         Stored(table, user_id, fn_oid) ==
           pljs_cache_function_find(table, user_id, fn_oid) # {}
     IN /\ (Len(stack') = Len(stack) + 1 /\ fr.handler = "call") =>
             (Stored(pljs_context_HashTable, fr.lookup_user, fr.fn_oid)
                => fr.hit)
        /\ (Completes /\ fr.handler = "call") =>
             Stored(pljs_context_HashTable', fr.lookup_user, fr.fn_oid)
        /\ (ev'.op = "find_function" /\ ev' # ev) =>
             /\ Stored(pljs_context_HashTable, userId, ev'.fn_oid) => ev'.hit
             /\ ev'.outcome = "compiled" =>
                  Stored(pljs_context_HashTable', userId, ev'.fn_oid)]_vars

\* pljs_tuple_to_jsvalue without the test for attisdropped: a dropped
\* column gets a property like any other.
pljs_tuple_to_jsvalue_keep_dropped(tupledesc, heap_tuple) ==
  JS_NewObject({Property(tupledesc[i].attname,
                         IF heap_tuple.nulls[i] THEN JS_NULL
                         ELSE pljs_datum_to_jsvalue(heap_tuple.elems[i],
                                                    tupledesc[i].atttypid)) :
                  i \in 1..Len(tupledesc)})

\* pljs_tuple_to_jsvalue: an object with one property for each column that
\* is not dropped, null for a null column.
pljs_tuple_to_jsvalue(tupledesc, heap_tuple) ==
  JS_NewObject({Property(tupledesc[i].attname,
                         IF heap_tuple.nulls[i] THEN JS_NULL
                         ELSE pljs_datum_to_jsvalue(heap_tuple.elems[i],
                                                    tupledesc[i].atttypid)) :
                  i \in {c \in 1..Len(tupledesc) : ~tupledesc[c].attisdropped}})

\* The ten arguments that call_trigger creates for the trigger routine: NEW,
\* OLD, TG_NAME, TG_WHEN, TG_LEVEL, TG_OP, TG_RELID, TG_TABLE_NAME,
\* TG_TABLE_SCHEMA and TG_ARGV.  The trigger is fired BEFORE, without
\* arguments.
call_trigger_argv(event) ==
  LET row(tuple) == pljs_tuple_to_jsvalue(TupleDescOf("t"), tuple)
      new == IF event.level # "ROW" \/ event.op = "DELETE" THEN JS_UNDEFINED
             ELSE IF event.op = "UPDATE" THEN row(tg_newtuple)
             ELSE row(tg_trigtuple)
      old == IF event.level # "ROW" \/ event.op = "INSERT" THEN JS_UNDEFINED
             ELSE row(tg_trigtuple)
  IN <<new, old, JS_NewString("g"), JS_NewString("BEFORE"),
       JS_NewString(event.level), JS_NewString(event.op), JS_NewNumber("1"),
       JS_NewString("t"), JS_NewString("public"), JS_NewArray(<<>>)>>

\* The script values created for a trigger call that are still referenced
\* when call_trigger is left with `outcome`, the script having returned
\* `ret`.  JS_FreeValue releases a value that carries a reference count: a
\* string or an object, not a number, null, undefined or the exception
\* marker.  call_trigger calls it for the result alone, on the path that
\* returns; a conversion that raises leaves the result referenced.
call_trigger_unreleased(event, outcome, ret) ==
  LET JS_VALUE_HAS_REF_COUNT(v) == v.tag \notin {"null", "undefined", "number"}
      result == IF outcome = "convert_error" THEN <<ret>> ELSE <<>>
  IN SelectSeq(call_trigger_argv(event) \o result, JS_VALUE_HAS_REF_COUNT)

\* C25: when a call-handler invocation ends, by return or by error, every
\* script value created for the call (the arguments, the ten trigger
\* arguments, the result) has been released.  Stated for the trigger calls.
C25_CallValuesReleasedOnExit ==
  /\ ev.op = "call_handler"
  /\ ev.kind = "trigger"
  /\ ev.outcome \in {"returned", "convert_error", "script_exception"}
  => call_trigger_unreleased(ev.tg, ev.outcome, ev.val) = <<>>

\* ------------------------------------- subtransactions opened by scripts
\* pljs.subtransaction(fn): BeginInternalSubTransaction, then JS_Call of fn.
pljs_subtransaction ==
  /\ stack # <<>>
  /\ Top.pc = "script"
  /\ Len(subxact_stack) < MaxDepth + 1
  /\ subxact_stack' = Append(subxact_stack,
                             [opener |-> "pljs_subtransaction", call |-> Top.call])
  /\ ev' = Event("subtransaction", "begun", Top, spi_stack, storage)
  /\ UNCHANGED <<userId, start_proc, prosrc, pljs_context_HashTable,
                 ctx_creator, storage, stack, spi_stack, call_count, served,
                 return_states, enc, os_pending_signals>>

\* JS_Call of fn comes back to pljs.subtransaction with a value or with an
\* exception: ReleaseCurrentSubTransaction, or
\* RollbackAndReleaseCurrentSubTransaction.
pljs_subtransaction_end ==
  /\ stack # <<>>
  /\ Top.pc = "script"
  /\ subxact_stack # <<>>
  /\ subxact_stack[Len(subxact_stack)] =
       [opener |-> "pljs_subtransaction", call |-> Top.call]
  /\ subxact_stack' = SubSeq(subxact_stack, 1, Len(subxact_stack) - 1)
  /\ ev' = Event("subtransaction", "ended", Top, spi_stack, storage)
  /\ UNCHANGED <<userId, start_proc, prosrc, pljs_context_HashTable,
                 ctx_creator, storage, stack, spi_stack, call_count, served,
                 return_states, enc, os_pending_signals>>

\* plan.execute called with a number of arguments that is not the plan's:
\* elog(ERROR) outside any PG_TRY of the primitive.  The error leaves the
\* script and its handler by longjmp.  With no caller the transaction is
\* aborted; otherwise it arrives in the PG_CATCH of the pljs_execute that
\* issued the statement, which rolls back the current subtransaction and
\* throws a script exception into the calling script.
pljs_plan_execute_mismatch ==
  /\ stack # <<>>
  /\ Top.pc = "script"
  /\ Raise([Top.saved EXCEPT !.subxact = Len(subxact_stack) - 1], Below,
           pljs_context_HashTable, storage, ctx_creator,
           Event(Top.handler \o "_handler", "plan_error", Top, spi_stack,
                 storage))
  /\ UNCHANGED <<start_proc, call_count>>

\* The calls and blocks with the subtransactions of their scripts.  A script
\* ends, with a value or with an exception, after every call of
\* pljs.subtransaction that it made has come back.
NextSubxact ==
  \/ CallFunction("add")
  \/ InlineBlock
  \/ pljs_subtransaction
  \/ pljs_subtransaction_end
  \/ pljs_plan_execute_mismatch
  \/ /\ stack # <<>>
     /\ \A i \in 1..Len(subxact_stack) :
          subxact_stack[i] #
            [opener |-> "pljs_subtransaction", call |-> Top.call]
     /\ (PlainReturn(TRUE) \/ ScriptThrow)

SpecSubxact == InitRows /\ [][NextSubxact]_vars

\* C26: when pljs.execute or plan.execute comes back to the calling script,
\* with a result or with a thrown exception, the subtransaction nesting
\* depth is what it was when the primitive was entered, and the
\* subtransaction that was ended is the one this invocation began.
C26_ExecuteKeepsSubtransactionDepth ==
  [][Len(stack') = Len(stack) - 1 /\ stack' # <<>> =>
       /\ Len(subxact_stack') = Top.saved.subxact
       /\ Len(subxact_stack) = Top.saved.subxact + 1
       /\ subxact_stack[Len(subxact_stack)] =
            [opener |-> "pljs_execute", call |-> stack'[Len(stack')].call]]_vars

\* C27: across calls, inline blocks, validator runs and resets in one
\* process, once a script context has been created for a principal no later
\* operation creates a second context for that principal.
C27_OneContextPerPrincipalForLife ==
  [][Len(ctx_creator') = Len(ctx_creator) + 1 =>
       \A c \in 1..Len(ctx_creator) :
         ctx_creator[c] # ctx_creator'[Len(ctx_creator')]]_vars

\* C28: validating a routine whose source fails the compile-only evaluation
\* raises an error and leaves the context table and every function table as
\* they were: no entry is created, removed or replaced.
C28_FailedValidationKeepsCaches ==
  [][\A fn_oid \in Redefined \cup {"other"} :
       pljs_call_validator(fn_oid, "invalid") =>
         /\ ev'.outcome = "validation_error"
         /\ pljs_context_HashTable' = pljs_context_HashTable
         /\ prosrc' = prosrc]_vars

\* A validation has failed in a process whose caches hold a context and a
\* compiled function.
C28_ValidationFailedWithEntries ==
  /\ ev.op = "validator"
  /\ ev.outcome = "validation_error"
  /\ \E e \in pljs_context_HashTable : e.function_hash_table.entries # {}

\* C29: immediately after pljs_cache_reset, pljs_cache_context_find and
\* pljs_cache_function_find return nothing for every principal and every
\* routine; the cache is usable again: the call or block that follows
\* creates a new context and enters it, and the routine called, in the
\* tables.
C29_ResetEmptiesAndCacheUsable ==
  [][/\ ev'.outcome \in {"validated", "reset"} =>
          \A u \in Users, fn_oid \in Fns :
            /\ pljs_cache_context_find(pljs_context_HashTable', u) = {}
            /\ pljs_cache_function_find(pljs_context_HashTable', u, fn_oid) = {}
     /\ (ev.outcome \in {"validated", "reset"}
           /\ Len(stack') = Len(stack) + 1) =>
          LET fr == stack'[Len(stack')]
          IN /\ ~fr.hit
             /\ Len(ctx_creator') = Len(ctx_creator) + 1
             /\ fr.ctx = Len(ctx_creator')
             /\ \E e \in pljs_cache_context_find(pljs_context_HashTable', userId) :
                  /\ e.ctx = fr.ctx
                  /\ fr.handler = "call" =>
                       \E f \in e.function_hash_table.entries :
                         f.fn_oid = fr.fn_oid]_vars

\* A call has followed a reset: it runs in the second context made for the
\* principal, which the context table holds.
C29_CallAfterReset ==
  /\ ev.op = "call_handler"
  /\ ev.outcome = "script"
  /\ Len(ctx_creator) = 2
  /\ ctx_creator[1] = ctx_creator[2]
  /\ \E e \in pljs_cache_context_find(pljs_context_HashTable, userId) :
       e.ctx = 2 /\ e.function_hash_table.entries # {}

\* C30: no script context and no compiled function made for the caches
\* outlives a reset: when pljs_cache_reset has run, by pljs_call_validator
\* or by pljs_reset, every context that was cached has been released in the
\* script runtime, also when a call that uses it is still running.
C30_NothingCachedOutlivesReset ==
  [][(\/ pljs_reset
      \/ \E fn_oid \in Redefined \cup {"other"}, src \in Sources :
           pljs_call_validator(fn_oid, src)) =>
       \A e \in pljs_context_HashTable : e.ctx \notin DOMAIN ctx_creator']_vars

\* ------------------------------------------- types.c: the decoders, applied
\* pljs_datum_to_object: the row that a composite Datum points to, decoded
\* with the descriptor that lookup_rowtype_tupdesc finds for the type named
\* in its header.  A Datum of 0 gives undefined.
pljs_datum_to_object(arg, tupdesc) ==
  IF arg = ZeroDatum THEN JS_UNDEFINED
  ELSE JS_NewObject({Property(tupdesc[i].attname,
                              IF arg.nulls[i] THEN JS_NULL
                              ELSE pljs_datum_to_jsvalue(arg.elems[i],
                                                         tupdesc[i].atttypid)) :
                       i \in {c \in 1..Len(tupdesc) : ~tupdesc[c].attisdropped}})

\* The parameter list of the declaration that pljs_compile_function
\* synthesizes, and the inargs that setup_function counts.  `arguments` is
\* what get_func_arg_info gives for the names: no array when no parameter of
\* the routine is named, and otherwise one string for every parameter, the
\* empty string for a parameter without a name.  setup_function copies the
\* pointers (lines 256-260); pljs_compile_function tests the pointer only.
pljs_compile_function_parameters(argmodes, arguments, is_trigger) ==
  LET listed == SelectSeq([i \in 1..Len(argmodes) |-> i],
                          LAMBDA i : argmodes[i] # "o")
  IN [params |->
        [k \in 1..Len(listed) |->
           IF arguments.given THEN arguments.names[listed[k]]
           ELSE <<"$1", "$2", "$3">>[k]]
        \o (IF is_trigger
              THEN <<"NEW", "OLD", "TG_NAME", "TG_WHEN", "TG_LEVEL", "TG_OP",
                     "TG_RELID", "TG_TABLE_NAME", "TG_TABLE_SCHEMA", "TG_ARGV">>
              ELSE <<>>),
      inargs |-> Cardinality({i \in 1..Len(argmodes) :
                                argmodes[i] \in {"i", "b", "v"}})]

\* pljs_setup_variable_paramlist: the parameter list given to the executor.
pljs_setup_variable_paramlist(param_types, values, nulls) ==
  [i \in 1..Len(param_types) |->
     [value |-> values[i], isnull |-> nulls[i] = "n", ptype |-> param_types[i]]]

\* pljs_execute_params, and the same lines of pljs_plan_execute (441-478)
\* and pljs_plan_cursor (740-760): every element of the script array is
\* encoded with no call info into values[]; the array nulls[] comes from
\* palloc and is not written, `nulls` is what the memory holds.
pljs_execute_params(params, param_types, nulls) ==
  LET nparams == pljs_js_array_length(params)
      rs == [i \in 1..nparams |->
               pljs_jsvalue_to_datum(JS_GetPropertyUint32(params, i - 1),
                                     param_types[i], FALSE, TRUE)]
  IN [error |-> FirstError(rs).error,
      ub |-> \E i \in 1..nparams : rs[i].ub,
      param_li |-> pljs_setup_variable_paramlist(
                     param_types, [i \in 1..nparams |-> rs[i].datum], nulls)]

\* The inputs of the conversions, by kind.  "row": rows of one to three
\* columns a, b and c, any of them dropped, any of them null; a dropped
\* column is stored as a null.  The other kinds: relational values of the
\* scalar types, to be decoded and encoded again (the ends of the integer
\* ranges, dates around 1970-01-01 and 2000-01-01, timestamps of a whole
\* number of milliseconds), and script values in the range of these types,
\* to be encoded and decoded again.
ConvertInputs(kind) ==
  LET RoundTrips(via, tag, types, values) ==
        {[NoEncoding EXCEPT !.via = via,
                            !.val = IF via = "encode_decoded"
                                      THEN ScalarDatum(rettype, v)
                                      ELSE JSValue(tag, v, <<>>, {}),
                            !.rettype = rettype, !.fcinfo = fcinfo] :
           rettype \in types, v \in values, fcinfo \in BOOLEAN}
  IN CASE kind = "row" ->
       {LET tupdesc == [c \in 1..n |-> Attr(<<"a", "b", "c">>[c],
                                            <<"int4", "text", "int4">>[c],
                                            c \in dropped)]
            values == [c \in 1..n |-> ScalarDatum(tupdesc[c].atttypid,
                                                  <<"1", "x", "2">>[c])]
            isnull == [c \in 1..n |-> c \in dropped \cup nulls]
        IN [NoEncoding EXCEPT !.via = via,
                              !.val = [tupdesc |-> tupdesc,
                                       tuple |-> heap_form_tuple(tupdesc, values,
                                                                 isnull)]] :
          via \in {"pljs_tuple_to_jsvalue", "pljs_datum_to_object"},
          n \in 1..3, dropped \in SUBSET (1..3), nulls \in SUBSET (1..3)}
     \* routines of up to three parameters x, y and z of every mode, with
     \* no names, or with names for some; a trigger routine has no
     \* parameters
     [] kind = "declaration" ->
          {[NoEncoding EXCEPT !.via = "pljs_compile_function",
                              !.val = [argmodes |-> d[1],
                                       arguments |->
                                         [given |-> d[2] # {},
                                          names |-> [i \in 1..Len(d[1]) |->
                                                       IF i \in d[2]
                                                         THEN <<"x", "y", "z">>[i]
                                                         ELSE ""]],
                                       is_trigger |-> d[3]]] :
             d \in {t \in (UNION {[1..m -> {"i", "o", "b", "v", "t"}] :
                                      m \in 0..3})
                             \X (SUBSET (1..3)) \X BOOLEAN :
                       /\ t[2] \subseteq 1..Len(t[1])
                       /\ t[3] => t[1] = <<>>
                       \* the columns of RETURNS TABLE are named and come last;
                       \* only OUT parameters follow a VARIADIC one
                       /\ \A i \in 1..Len(t[1]) :
                            /\ t[1][i] = "t" =>
                                 /\ i \in t[2]
                                 /\ \A j \in i..Len(t[1]) : t[1][j] = "t"
                            /\ t[1][i] = "v" =>
                                 \A j \in (i + 1)..Len(t[1]) :
                                   t[1][j] \in {"o", "t"}}}
     \* values that are not Date objects, to be encoded to a date or a
     \* timestamp
     [] kind = "not a Date" ->
          {[NoEncoding EXCEPT !.via = "date_target", !.val = val,
                              !.rettype = rettype, !.fcinfo = fcinfo] :
             val \in {JS_NewNumber("1"), JS_NewString("x"), ObjNoLabel,
                      JS_NewObject({Property("is_null", JS_NewNumber("1"))})},
             rettype \in {"date", "timestamp"}, fcinfo \in BOOLEAN}
     \* the one or two parameters of a query
     [] kind = "parameters" ->
          {[NoEncoding EXCEPT !.via = via, !.val = JS_NewArray(params)] :
             via \in {"pljs_execute_params", "pljs_plan_execute",
                      "pljs_plan_cursor"},
             params \in UNION {[1..n -> {JS_NULL, JS_UNDEFINED, JS_NewNumber("1"),
                                         JS_NewString("x")}] : n \in 1..2}}
     [] kind = "bool" ->
          RoundTrips("encode_decoded", "-", {"bool"}, BOOLEAN)
     [] kind = "integer" ->
          RoundTrips("encode_decoded", "-", {"int2"}, {-32768, -1, 0, 1, 32767})
          \cup RoundTrips("encode_decoded", "-", {"int4", "int8"},
                          {-2147483647, -1, 0, 1, 2147483647})
     [] kind = "date" ->
          RoundTrips("encode_decoded", "-", {"date"}, {-10958, -10957, -1, 0, 1})
     [] kind = "timestamp" ->
          RoundTrips("encode_decoded", "-", {"timestamp"},
                     [days : {-10957, 0}, us : {0, 1000}])
     [] kind = "boolean" ->
          RoundTrips("decode_encoded", "boolean", {"bool"}, BOOLEAN)
     [] kind = "number" ->
          RoundTrips("decode_encoded", "number", {"int2"},
                     {-32768, -1, 0, 1, 32767})
          \cup RoundTrips("decode_encoded", "number", {"int4"},
                          {-2147483647, -1, 0, 1, 2147483647})
     [] kind = "bigint" ->
          RoundTrips("decode_encoded", "bigint", {"int8"},
                     {-2147483647, -1, 0, 1, 2147483647})
     [] kind = "Date" ->
          RoundTrips("decode_encoded", "Date", {"date"},
                     [days : {-1, 0, 1, 10957}, ms : {0}])
          \cup RoundTrips("decode_encoded", "Date", {"timestamp"},
                          [days : {0, 10957}, ms : {0, 1}])

\* A conversion is applied to its input.
Converted(r) ==
  /\ ~enc.done
  /\ enc' = [enc EXCEPT !.done = TRUE, !.res = r]
  /\ UNCHANGED <<userId, start_proc, prosrc, pljs_context_HashTable,
                 ctx_creator, storage, stack, spi_stack, subxact_stack,
                 call_count, served, ev, return_states, os_pending_signals>>

NextConvert ==
  \* the parameters of a query are bound, all of them of type text
  \/ /\ enc.via \in {"pljs_execute_params", "pljs_plan_execute",
                      "pljs_plan_cursor"}
     /\ \E nulls \in [1..Len(enc.val.elems) -> {"n", " "}] :
          Applied(pljs_execute_params(enc.val,
                                      [i \in 1..Len(enc.val.elems) |-> "text"],
                                      nulls))
  \* a value is encoded to a date or a timestamp; `fallback` is what
  \* jsvalue_to_datum_default gives for it
  \/ /\ enc.via = "date_target"
     /\ LET r == pljs_jsvalue_to_datum(enc.val, enc.rettype, enc.fcinfo, TRUE)
        IN Applied([error |-> r.error, ub |-> r.ub, datum |-> r.datum,
                    isnull |-> r.isnull, fcinfo_isnull |-> r.fcinfo_isnull,
                    fallback |-> jsvalue_to_datum_default(enc.val, TRUE,
                                                          enc.rettype)])
  \/ /\ enc.via = "pljs_compile_function"
     /\ Converted(pljs_compile_function_parameters(enc.val.argmodes,
                                                   enc.val.arguments,
                                                   enc.val.is_trigger))
  \/ /\ enc.via = "pljs_tuple_to_jsvalue"
     /\ Converted(pljs_tuple_to_jsvalue(enc.val.tupdesc, enc.val.tuple))
  \/ /\ enc.via = "pljs_datum_to_object"
     /\ Converted(pljs_datum_to_object(enc.val.tuple, enc.val.tupdesc))
  \* a relational value is decoded and the script value encoded to the same
  \* type
  \/ /\ enc.via = "encode_decoded"
     /\ Applied(pljs_jsvalue_to_datum(pljs_datum_to_jsvalue(enc.val, enc.rettype),
                                      enc.rettype, enc.fcinfo, TRUE))
  \* a script value is encoded and the relational value decoded from the
  \* same type: `val` is what the script gets, null for a relational NULL
  \/ /\ enc.via = "decode_encoded"
     /\ LET r == pljs_jsvalue_to_datum(enc.val, enc.rettype, enc.fcinfo, TRUE)
        IN Applied([error |-> r.error, ub |-> r.ub, datum |-> r.datum,
                    isnull |-> r.isnull, fcinfo_isnull |-> r.fcinfo_isnull,
                    val |-> IF r.isnull \/ r.fcinfo_isnull \/ r.datum.kind = "0"
                              THEN JS_NULL
                              ELSE pljs_datum_to_jsvalue(r.datum, enc.rettype)])

SpecConvert ==
  /\ InitInput(\E kind \in {"row", "declaration", "not a Date", "parameters",
                             "bool", "integer", "date", "timestamp", "boolean",
                             "number", "bigint", "Date"} :
                 enc \in ConvertInputs(kind))
  /\ [][NextConvert]_vars

\* ------------------------------------- functions.c: partition-local storage
\* sizeof(pljs_window_storage): two size_t and the one-byte array, padded to
\* the alignment of size_t.
sizeof_pljs_window_storage == 8 + 8 + 8

\* window.get_partition_local with argc arguments, the first read by
\* JS_ToInt32 as input_size: the region after the call, what is thrown and
\* what is returned (the stored text, which JS_ParseJSON parses).
pljs_window_get_partition_local(localmem, argc, input_size) ==
  LET size == IF argc > 0 /\ input_size # 0 THEN input_size ELSE 1000
      \* WinGetPartitionLocalMemory: allocated and zeroed on the first call
      \* of the partition, with the size of that call
      got == IF localmem.alloc = 0
               THEN [alloc |-> size + sizeof_pljs_window_storage, max_length |-> 0,
                     length |-> 0, data |-> ""]
               ELSE localmem
      window_storage == IF got.max_length = 0
                          THEN [got EXCEPT !.max_length = size]
                          ELSE got
  IN IF argc > 0 /\ input_size < 0
       THEN [localmem |-> localmem,
             error |-> "allocation size cannot be negative", ret |-> "undefined"]
       ELSE [localmem |-> window_storage, error |-> "",
             ret |-> IF window_storage.length = 0 THEN "undefined"
                                                  ELSE window_storage.data]

\* window.set_partition_local(val).
pljs_window_set_partition_local(localmem, val) ==
  LET str == JS_JSONStringify(val)
      str_size == Len(str)
      size == str_size
      got == IF localmem.alloc = 0
               THEN [alloc |-> size + sizeof_pljs_window_storage, max_length |-> 0,
                     length |-> 0, data |-> ""]
               ELSE localmem
  IN IF got.max_length # 0
        /\ got.max_length < size + sizeof_pljs_window_storage
       THEN [localmem |-> got, error |-> "window local memory overflow",
             ret |-> "undefined"]
       ELSE [localmem |-> [got EXCEPT
                             !.max_length = IF got.max_length = 0 THEN size ELSE @,
                             !.length = str_size,
                             !.data = str],
             error |-> "", ret |-> "undefined"]

\* A window function's script works on the local storage of one partition:
\* enc.val is the region, enc.res the last call with the region before it.
NextWindow ==
  \/ \E a \in {<<0, 0>>, <<1, -1>>, <<1, 0>>, <<1, 7>>, <<1, 30>>} :
       LET r == pljs_window_get_partition_local(enc.val, a[1], a[2])
       IN /\ enc.via = "window"
          /\ enc' = [enc EXCEPT !.val = r.localmem,
                                !.res = [op |-> "get_partition_local",
                                         arg |-> JS_UNDEFINED,
                                         before |-> enc.val,
                                         error |-> r.error, ret |-> r.ret]]
          /\ UNCHANGED <<userId, start_proc, prosrc, pljs_context_HashTable,
                         ctx_creator, storage, stack, spi_stack, subxact_stack,
                         call_count, served, ev, return_states,
                         os_pending_signals>>
  \/ \E val \in {JS_NewString("a"), JS_NewString("abcd"), JS_NewString("abcde"),
                 JS_NewString("abcdefghijklmnopqrstuvwxyz01"),
                 JS_NewString("abcdefghijklmnopqrstuvwxyz012")} :
       LET r == pljs_window_set_partition_local(enc.val, val)
       IN /\ enc.via = "window"
          /\ enc' = [enc EXCEPT !.val = r.localmem,
                                !.res = [op |-> "set_partition_local",
                                         arg |-> val,
                                         before |-> enc.val,
                                         error |-> r.error, ret |-> r.ret]]
          /\ UNCHANGED <<userId, start_proc, prosrc, pljs_context_HashTable,
                         ctx_creator, storage, stack, spi_stack, subxact_stack,
                         call_count, served, ev, return_states,
                         os_pending_signals>>

SpecWindow ==
  /\ InitInput(LET NoLocalMemory == [alloc |-> 0, max_length |-> 0,
                                     length |-> 0, data |-> ""]
               IN enc = [NoEncoding EXCEPT
                           !.via = "window",
                           !.val = NoLocalMemory,
                           !.res = [op |-> "-", arg |-> JS_UNDEFINED,
                                    before |-> NoLocalMemory,
                                    error |-> "", ret |-> "undefined"]])
  /\ [][NextWindow]_vars

\* ------------------------------------------- functions.c: prepared plans
\* The most plan objects a script prepares.
MaxPlans == 2

\* pljs.prepare: a plan object whose property `plan` is a new handle, the
\* opaque pointer of the handle being the new pljs_plan.  heap[h] is the
\* pljs_plan of handle h, with the number of arguments its query takes;
\* objs[k].plan is the handle in the property of plan object k, 0 for null.
pljs_prepare(val, nparams) ==
  [val EXCEPT !.heap = Append(@, [freed |-> FALSE, argcount |-> nparams]),
              !.objs = Append(@, [plan |-> Len(val.heap) + 1,
                                  frozen |-> FALSE])]

\* plan.execute on plan object k with nparams parameters: the error thrown,
\* the pljs_plan whose plan is given to SPI_execute_plan (0 for none), and
\* whether freed memory was read.  JS_GetOpaque of null is NULL, and of a
\* handle its pointer, the pljs_plan still allocated or not.
pljs_plan_execute(val, k, nparams) ==
  LET plan == val.objs[k].plan
  IN CASE plan = 0 ->
            {[error |-> "Invalid plan", executor |-> 0, ub |-> FALSE]}
       [] plan # 0 /\ val.heap[plan].freed ->
            \* plan->parstate and plan->plan are read from freed memory
            [error : {"", "plan expected arguments", "SPI error"},
             executor : {0, plan}, ub : {TRUE}]
       [] plan # 0 /\ ~val.heap[plan].freed ->
            IF val.heap[plan].argcount # nparams
              THEN {[error |-> "plan expected arguments", executor |-> 0,
                     ub |-> FALSE]}
              ELSE {[error |-> "", executor |-> plan, ub |-> FALSE]}

\* plan.cursor, the plan given to SPI_cursor_open.
pljs_plan_cursor(val, k, nparams) ==
  LET plan == val.objs[k].plan
  IN CASE plan = 0 ->
            {[error |-> "plan unexpectedly null", executor |-> 0, ub |-> FALSE]}
       [] plan # 0 /\ val.heap[plan].freed ->
            [error : {"", "plan unexpectedly null", "plan expected arguments",
                      "Error executing"},
             executor : {0, plan}, ub : {TRUE}]
       [] plan # 0 /\ ~val.heap[plan].freed ->
            IF val.heap[plan].argcount # nparams
              THEN {[error |-> "plan expected arguments", executor |-> 0,
                     ub |-> FALSE]}
              ELSE {[error |-> "", executor |-> plan, ub |-> FALSE]}

\* plan.free on plan object k: the pljs_plan of the handle is freed, a
\* second time when it was freed already; JS_SetPropertyStr makes the
\* property null, which fails on a frozen object, the exception being
\* ignored.
pljs_plan_free(val, k) ==
  LET plan == val.objs[k].plan
  IN [val |-> [val EXCEPT
                 !.heap = IF plan # 0 THEN [@ EXCEPT ![plan].freed = TRUE] ELSE @,
                 !.objs[k].plan = IF val.objs[k].frozen THEN @ ELSE 0,
                 !.free_called = @ \cup {k}],
      ub |-> plan # 0 /\ val.heap[plan].freed,
      ret |-> 0]

\* A script prepares plans and uses them.  The handle is an ordinary
\* property of the plan object, which the script can read, write and
\* freeze like any other: a script writes to the property a handle it read
\* before.  enc.val holds the plan objects, enc.res the last call with the
\* state before it; undefined behaviour ends the process or goes on.
NextPlan ==
  LET Called(op, k, after, rs) ==
        \E r \in rs : \E crashed \in IF r.ub THEN BOOLEAN ELSE {FALSE} :
          /\ enc' = [enc EXCEPT !.val = after, !.crashed = crashed,
                                !.res = [op |-> op, obj |-> k, before |-> enc.val,
                                         error |-> r.error,
                                         executor |-> r.executor,
                                         ub |-> r.ub, ret |-> r.ret]]
          /\ UNCHANGED <<userId, start_proc, prosrc, pljs_context_HashTable,
                         ctx_creator, storage, stack, spi_stack, subxact_stack,
                         call_count, served, ev, return_states,
                         os_pending_signals>>
      Ret(rs, ret) == {[error |-> r.error, executor |-> r.executor,
                        ub |-> r.ub, ret |-> ret] : r \in rs}
      Script == {[error |-> "", executor |-> 0, ub |-> FALSE, ret |-> 0]}
  IN /\ enc.via = "plan"
     /\ ~enc.crashed
     /\ \/ /\ Len(enc.val.objs) < MaxPlans
           /\ \E nparams \in {0, 1} :
                Called("prepare", Len(enc.val.objs) + 1,
                       pljs_prepare(enc.val, nparams), Script)
        \/ \E k \in 1..Len(enc.val.objs) : \E nparams \in {0, 1} :
             Called("execute", k, enc.val,
                    Ret(pljs_plan_execute(enc.val, k, nparams), 0))
        \/ \E k \in 1..Len(enc.val.objs) : \E nparams \in {0, 1} :
             Called("cursor", k, enc.val,
                    Ret(pljs_plan_cursor(enc.val, k, nparams), 0))
        \/ \E k \in 1..Len(enc.val.objs) :
             LET r == pljs_plan_free(enc.val, k)
             IN Called("free", k, r.val,
                       {[error |-> "", executor |-> 0, ub |-> r.ub,
                         ret |-> r.ret]})
        \* Object.freeze(plan)
        \/ \E k \in 1..Len(enc.val.objs) :
             /\ ~enc.val.objs[k].frozen
             /\ Called("freeze", k, [enc.val EXCEPT !.objs[k].frozen = TRUE],
                       Script)
        \* plan.plan = h, with h a handle read from a plan object before
        \/ \E k \in 1..Len(enc.val.objs) : \E h \in 1..Len(enc.val.heap) :
             /\ ~enc.val.objs[k].frozen
             /\ enc.val.objs[k].plan # h
             /\ Called("store", k, [enc.val EXCEPT !.objs[k].plan = h], Script)

SpecPlan ==
  /\ InitInput(LET NoPlans == [objs |-> <<>>, heap |-> <<>>, free_called |-> {}]
               IN enc = [NoEncoding EXCEPT
                           !.via = "plan",
                           !.val = NoPlans,
                           !.res = [op |-> "-", obj |-> 0, before |-> NoPlans,
                                    error |-> "", executor |-> 0, ub |-> FALSE,
                                    ret |-> 0]])
  /\ [][NextPlan]_vars

\* C31: decoding a row whose descriptor has d dropped columns out of n gives
\* an object with exactly n - d properties, one for the name of each column
\* that is not dropped and none for a dropped column; a field that is NULL
\* is the script null.
C31_DroppedColumnsOmitted ==
  (enc.done /\ enc.via \in {"pljs_tuple_to_jsvalue", "pljs_datum_to_object"}) =>
    LET tupdesc == enc.val.tupdesc
        kept == {c \in 1..Len(tupdesc) : ~tupdesc[c].attisdropped}
        obj == enc.res
    IN /\ JS_IsObject(obj)
       /\ Cardinality(obj.props) = Len(tupdesc) - Cardinality(1..Len(tupdesc) \ kept)
       /\ JS_GetOwnPropertyNames(obj) = {tupdesc[c].attname : c \in kept}
       /\ \A c \in kept : enc.val.tuple.nulls[c] =>
            JS_IsNull(JS_GetPropertyStr(obj, tupdesc[c].attname))

\* A row of three columns with the second dropped and the third NULL has
\* been decoded.
C31_RowWithDroppedColumnDecoded ==
  /\ enc.done
  /\ enc.via = "pljs_tuple_to_jsvalue"
  /\ Len(enc.val.tupdesc) = 3
  /\ enc.val.tupdesc[2].attisdropped
  /\ ~enc.val.tupdesc[1].attisdropped /\ ~enc.val.tupdesc[3].attisdropped
  /\ ~enc.val.tuple.nulls[1] /\ enc.val.tuple.nulls[3]
  /\ Cardinality(enc.res.props) = 2

\* C32: for boolean, 16-, 32- and 64-bit integers, dates and timestamps of a
\* whole number of milliseconds, encoding the decoded form of a relational
\* value gives the value back, and decoding the encoded form of a script
\* value in the range of the type gives the script value back.
C32_ScalarRoundTrip ==
  /\ (enc.done /\ enc.via = "encode_decoded") =>
       /\ ~enc.crashed
       /\ enc.res.error = ""
       /\ ~enc.res.isnull /\ ~enc.res.fcinfo_isnull
       /\ enc.res.datum.kind = enc.val.kind
       /\ enc.res.datum.v = enc.val.v
  /\ (enc.done /\ enc.via = "decode_encoded") =>
       /\ ~enc.crashed
       /\ enc.res.val.tag = enc.val.tag
       /\ enc.res.val.v = enc.val.v

\* C33: the synthesized declaration lists exactly the parameters of the
\* routine that are not OUT parameters, in the order declared, each by its
\* declared name or, when it has none, by the placeholder $k with k its
\* position among the parameters listed; the number listed is inargs, the
\* number of arguments passed at the call; for a trigger the ten trigger
\* parameters follow.
C33_DeclarationListsInputParameters ==
  (enc.done /\ enc.via = "pljs_compile_function") =>
    LET argmodes == enc.val.argmodes
        names == enc.val.arguments.names
        inputs == SelectSeq([i \in 1..Len(argmodes) |-> i],
                            LAMBDA i : argmodes[i] \in {"i", "b", "v"})
        fixed == IF enc.val.is_trigger THEN 10 ELSE 0
    IN /\ Len(enc.res.params) = Len(inputs) + fixed
       /\ Len(inputs) = enc.res.inargs
       /\ \A k \in 1..Len(inputs) :
            enc.res.params[k] = IF names[inputs[k]] # "" THEN names[inputs[k]]
                                ELSE <<"$1", "$2", "$3">>[k]

\* C34 as stated: a context enters the cache only once the start routine,
\* when one is configured, has run in it; the start routine is entered
\* exactly when a context is created, in that context, and never on a hit;
\* when it raises, its context is not registered.
C34_RegisteredOnlyAfterStartProcRan ==
  [][LET created == Len(ctx_creator') = Len(ctx_creator) + 1
         entered == /\ Len(stack') = Len(stack) + 1
                    /\ stack'[Len(stack')].pc = "start_proc"
     IN /\ \A e \in pljs_context_HashTable' :
             e.ctx \notin {x.ctx : x \in pljs_context_HashTable} =>
               \/ ~start_proc
               \/ stack # <<>> /\ Top.pc = "start_proc" /\ Top.ctx = e.ctx
        /\ entered <=> (created /\ start_proc)
        /\ entered => /\ stack'[Len(stack')].ctx = Len(ctx_creator')
                      /\ ~stack'[Len(stack')].hit
        /\ (stack # <<>> /\ Top.pc = "start_proc" /\ ev'.outcome = "start_proc_error")
             => Top.ctx \notin {x.ctx : x \in pljs_context_HashTable'}]_vars

\* C34, amended: a context enters the cache only once the start routine has
\* run in it, unless none is configured or the configured one cannot be
\* found and compiled (which is a warning); the start routine is entered
\* exactly when a context is created and the routine is found, in that
\* context, and never on a hit; when it raises, its context is not
\* registered.
C34_RegisteredAfterStartProcWhenFound ==
  [][LET created == Len(ctx_creator') = Len(ctx_creator) + 1
         entered == /\ Len(stack') = Len(stack) + 1
                    /\ stack'[Len(stack')].pc = "start_proc"
         found == ~pljs_find_js_function(pljs_context_HashTable, userId, "add",
                                         Len(ctx_creator) + 1, call_count + 1,
                                         "start_proc").error
     IN /\ \A e \in pljs_context_HashTable' :
             e.ctx \notin {x.ctx : x \in pljs_context_HashTable} =>
               \/ ~start_proc
               \/ created /\ ~found
               \/ stack # <<>> /\ Top.pc = "start_proc" /\ Top.ctx = e.ctx
        /\ entered <=> (created /\ start_proc /\ found)
        /\ entered => /\ stack'[Len(stack')].ctx = Len(ctx_creator')
                      /\ ~stack'[Len(stack')].hit
        /\ (stack # <<>> /\ Top.pc = "start_proc" /\ ev'.outcome = "start_proc_error")
             => Top.ctx \notin {x.ctx : x \in pljs_context_HashTable'}]_vars

\* The start routine has returned and the handler has registered the
\* context it ran in.
C34_RegisteredAfterStartProc ==
  /\ start_proc
  /\ stack # <<>>
  /\ Top.pc = "script"
  /\ Top.need_add
  /\ ev.outcome = "script"
  /\ \E e \in pljs_context_HashTable : e.ctx = Top.ctx

\* C35: a value that is neither null nor a Date object, encoded to a date or
\* a timestamp, gives what the encoder of the unknown types gives for it: a
\* NULL when its property is_null is true, and otherwise the 32-bit integer
\* read of the value.
C35_NonDateTakesFallback ==
  (enc.done /\ enc.via = "date_target") =>
    /\ ~enc.crashed
    /\ enc.res.error = enc.res.fallback.error
    /\ (enc.res.isnull \/ enc.res.fcinfo_isnull) = enc.res.fallback.isnull
    /\ enc.res.datum = enc.res.fallback.datum

\* C36: a parameter of pljs.execute, plan.execute or plan.cursor that is
\* null or undefined is bound as NULL and every other parameter as not
\* NULL: the null flag of bound parameter i is given by script parameter i
\* alone.
C36_NullParametersBoundAsNull ==
  (enc.done /\ enc.via \in {"pljs_execute_params", "pljs_plan_execute",
                            "pljs_plan_cursor"}) =>
    /\ ~enc.crashed
    /\ enc.res.error = ""
    /\ \A i \in 1..Len(enc.val.elems) :
         enc.res.param_li[i].isnull <=>
           (JS_IsNull(enc.val.elems[i]) \/ JS_IsUndefined(enc.val.elems[i]))

\* C37: when a typed array of n elements 1, 2 or 4 bytes wide is encoded to
\* bytea, no index used by the copy reaches n (nothing is written past the
\* end of the copy, which ends the process or goes unnoticed), and the
\* result holds exactly n times the width bytes.
C37_TypedArrayCopyInBounds ==
  (/\ enc.done
   /\ enc.via = "pljs_jsvalue_to_datum"
   /\ enc.rettype = "bytea"
   /\ enc.val.tag \in {"Uint8Array", "Int16Array", "Int32Array"}) =>
    LET width == CASE enc.val.tag = "Uint8Array" -> 1
                   [] enc.val.tag = "Int16Array" -> 2
                   [] enc.val.tag = "Int32Array" -> 4
    IN /\ ~enc.res.ub
       /\ ~enc.crashed
       /\ enc.res.datum.dims = <<width * Len(enc.val.elems)>>

\* C38: set_partition_local stores the value exactly when the length of its
\* serialization is at most the max_length of the region (a region that it
\* allocates is made to fit), and otherwise raises the overflow error and
\* leaves length and payload as they were; length never exceeds max_length;
\* storing again the value that is stored succeeds.
C38_StoresExactlyWhenItFits ==
  (enc.via = "window" /\ enc.res.op = "set_partition_local") =>
    LET before == enc.res.before
        str == JS_JSONStringify(enc.res.arg)
        fits == before.alloc = 0 \/ Len(str) <= before.max_length
    IN /\ (enc.res.error = "") <=> fits
       /\ fits => enc.val.length = Len(str) /\ enc.val.data = str
       /\ ~fits => /\ enc.res.error = "window local memory overflow"
                   /\ enc.val.length = before.length
                   /\ enc.val.data = before.data
       /\ enc.val.length <= enc.val.max_length
       /\ (before.length > 0 /\ before.data = str) => enc.res.error = ""

\* C39: once plan.free() was called on a plan object, every plan.execute
\* and every plan.cursor on that object raises an error and gives no plan
\* to the executor, and every further plan.free() on it returns 0 and
\* frees nothing.
C39_FreedPlanIsNeverUsed ==
  (enc.via = "plan" /\ enc.res.obj \in enc.res.before.free_called) =>
    /\ enc.res.op \in {"execute", "cursor"} =>
         /\ enc.res.error # ""
         /\ enc.res.executor = 0
         /\ ~enc.res.ub
    /\ enc.res.op = "free" =>
         /\ enc.res.ret = 0
         /\ ~enc.res.ub
         /\ enc.val.heap = enc.res.before.heap
         /\ enc.val.objs = enc.res.before.objs

====
